---- MODULE Spec2Model ----
(***************************************************************************)
(* Model of the prompt-based tool-calling chatbot core:                    *)
(*   qtchatbot/chatbot.py      ChatWorker (run, _emit_chunk, cancel)        *)
(*   qtchatbot/llm_client.py   LLMClient (chat, chat_stream,                *)
(*                             parse_tool_calls)                            *)
(*   qtchatbot/mcp_manager.py  MCPManager (execute_tool)                    *)
(*                                                                         *)
(* A text is a sequence of pieces (strings); concatenating texts is        *)
(* sequence concatenation.  The worker thread and the thread that calls    *)
(* cancel() interleave at every access of the shared flag is_cancelled.    *)
(***************************************************************************)
EXTENDS Integers, Sequences, FiniteSets, TLC

VARIABLES
    is_cancelled,     \* ChatWorker.is_cancelled, the shared flag
    model,            \* LLMClient.model: the language model that answers
    tools,            \* MCPManager.tools: registered name -> MCPTool
    pc,               \* position of the worker thread inside run()
    iterations,       \* run(): iterations
    final_content,    \* run(): final_content
    messages,         \* ChatWorker.messages, the worker's own copy
    caller_messages,  \* the list `messages` that was handed to __init__
    response,         \* run(): response (LLMResponse: content, tool_calls)
    cancelled,        \* run(): the local `cancelled`, last value read
    full_content,     \* chat_stream(): full_content
    lineNo,           \* chat_stream(): lines taken from iter_lines() so far
    chunk,            \* _emit_chunk(): the argument `chunk`
    chunk_cancelled,  \* _emit_chunk(): the local `cancelled`
    chunk_ret,        \* where _emit_chunk() returns to
    tool_idx,         \* run(): position of the for loop over tool_calls
    tool_results,     \* run(): tool_results
    result,           \* run(): result of the tool call being processed
    error_text,       \* run(): str(e) of the exception being handled
    emitted,          \* the signals emitted since the current turn started,
                      \* in emission order
    \* history variables (record what happened; never read by the program)
    observed,         \* the worker has read is_cancelled as True
    handlerCalls,     \* names of the tool handlers invoked, in order
    retries,          \* calls of LLMClient.chat() in the current turn
    turnPath,         \* how far the current turn got in obtaining content
    completed,        \* the current turn passed the check after its content
    streamCalls,      \* calls of LLMClient.chat_stream() so far
    failed,           \* chat_stream() or chat() has raised in this request
    cancelBetween,    \* k > 0: cancel() set the flag after the result of
                      \* call k was emitted and before the next check
    \* one call of LLMClient.parse_tool_calls, taken method by method
    parse_content,    \* parse_tool_calls(): the argument `content`
    tool_calls,       \* parse_tool_calls(): tool_calls
    parse_pc,         \* position inside parse_tool_calls()
    \* one conversation session (ChatbotWindow) and the workers it starts
    current_worker,   \* ChatbotWindow.current_worker (0: None)
    threads,          \* per worker: its QThread is "new", "running",
                      \* "emitted" (running, terminal signal emitted) or
                      \* "finished"
    worker_cancelled, \* the workers whose is_cancelled is set
    connected,        \* the workers whose signals are connected to the
                      \* window's slots
    queued,           \* signals posted to the GUI thread's event loop
                      \* and not yet delivered
    input_enabled,    \* input_field / send_button enabled, stop_button
                      \* hidden
    timers,           \* pending QTimer.singleShot(100, _delayed_cleanup)
    ui_pc,            \* position of the GUI thread: "idle" between
                      \* handlers, "waiting" inside current_worker.wait()
    conversation_history, \* ChatbotWindow.conversation_history
    last_signal,      \* per worker: the last signal its run() has emitted
                      \* ("none": none so far)
    \* MCPManager.load_mcps
    config,           \* config['mcps']: the descriptor list
    load_idx,         \* descriptors the for loop has taken
    servers,          \* MCPManager.servers: name -> names of its tools
    load_pc,          \* position inside load_mcps()
    \* one call of LLMClient.chat_stream on a response body of its own
    body,             \* the lines response.iter_lines() yields
    line_idx,         \* the line the for loop takes next
    stream_content,   \* chat_stream(): full_content
    on_chunk_calls,   \* the arguments on_chunk was called with, in order
    stream_error,     \* the exception that left chat_stream(), if any
    stream_pc,        \* position inside chat_stream()
    \* the connection probes of one session
    probe_outcome,    \* what requests.get does in the probe under way
    probe_result,     \* the pair check_connection() has returned last
    probe_pc,         \* position inside update_connection_status()
    probes,           \* probes started so far
    status_message    \* the text the status bar shows

\* one call of parse_tool_calls() on its own
parseVars == <<parse_content, tool_calls, parse_pc>>
\* the session and its workers
windowVars == <<current_worker, threads, worker_cancelled, connected, queued,
                input_enabled, timers, ui_pc, conversation_history,
                last_signal>>
\* load_mcps(), but for the registry it fills (tools)
loaderVars == <<config, load_idx, servers, load_pc>>
\* the for loop of chat_stream() over the lines of one response
frameVars == <<body, line_idx, stream_content, on_chunk_calls, stream_error,
               stream_pc>>
\* update_connection_status() and the check_connection() it calls
probeVars == <<probe_outcome, probe_result, probe_pc, probes, status_message>>
\* what no step of a request changes: the configuration it runs under, and
\* the state of the operations that are not part of ChatWorker.run
envVars == <<model, tools, parseVars, windowVars, loaderVars, frameVars,
             probeVars>>
\* locals of chat_stream() and of _emit_chunk()
streamVars == <<full_content, lineNo>>
chunkVars == <<chunk, chunk_cancelled, chunk_ret>>
\* locals of the for loop over the tool calls
toolVars == <<tool_idx, tool_results, result>>

\* the state of one run() of a worker
runVars == <<is_cancelled, pc, iterations, final_content, messages,
             caller_messages, response,
             cancelled, streamVars, chunkVars, toolVars, error_text, emitted,
             observed, handlerCalls, retries, turnPath, completed,
             streamCalls, failed, cancelBetween>>
\* the state of one worker and of its request
workerVars == <<model, tools, runVars>>
\* what a call of parse_tool_calls() on its own, a step of the session, a
\* step of load_mcps() and a step of chat_stream() on its own leave alone
outsideParse == <<workerVars, windowVars, loaderVars, frameVars, probeVars>>
outsideWindow == <<workerVars, parseVars, loaderVars, frameVars, probeVars>>
outsideLoad == <<model, runVars, parseVars, windowVars, frameVars,
                 probeVars>>
outsideFrames == <<workerVars, parseVars, windowVars, loaderVars,
                   probeVars>>
outsideProbe == <<workerVars, parseVars, windowVars, loaderVars, frameVars>>

vars == <<is_cancelled, envVars, pc, iterations, final_content, messages,
          caller_messages,
          response, cancelled, streamVars, chunkVars, toolVars, error_text,
          emitted, observed, handlerCalls, retries, turnPath, completed,
          streamCalls, failed, cancelBetween>>

-----------------------------------------------------------------------------
(* Bounds of the environment (the endpoint and the tool handlers).         *)

\* pieces of model output one user request accumulates: those of the
\* assistant messages in the history plus those of the turn in progress
MaxDeltas == 5
\* lines one streamed response holds before it ends
MaxLines == 2
\* pieces of the text handed to one call of parse_tool_calls on its own
MaxPieces == 3
\* workers one session starts
MaxWorkers == 3
\* single-shot timers for _delayed_cleanup pending at one time
MaxTimers == 2
\* signals posted to the GUI thread and not yet delivered when a worker
\* emits a chunk or a tool signal
MaxQueued == 1

\* ChatWorker.MAX_TOOL_ITERATIONS
MAX_TOOL_ITERATIONS == 5

-----------------------------------------------------------------------------
(* Pieces of model output.  Each piece is the text it stands for.          *)

Prose     == "Here you go. "
RawQuota  == "{\"tool\": \"get_quota\", \"arguments\": {}}"
RawNope   == "{\"tool\": \"nope\", \"arguments\": {}}"
LooseNum  == "{\"tool\": 5}"
LooseList == "{\"tool\": [\"x\"]}"
\* <fence> stands for the three backquotes that open and close a fenced
\* block (a string of the model cannot hold a backquote)
FencedQuota ==
    "<fence>tool_call\n{\"tool\": \"get_quota\", \"arguments\": {\"user\": \"me\"}}\n<fence>"
AltQuota  == "{\"arguments\": {\"user\": \"you\"}, \"tool\": \"get_quota\"}"
\* the object of AltQuota with the tool key first
RawYou    == "{\"tool\": \"get_quota\", \"arguments\": {\"user\": \"you\"}}"
\* an object whose arguments hold an object with the keys of a tool call,
\* with the tool key first and with the arguments key first
RawNested ==
    "{\"tool\": \"foo\", \"arguments\": {\"tool\": \"bar\", \"arguments\": {}}}"
AltNested ==
    "{\"arguments\": {\"tool\": \"bar\", \"arguments\": {}}, \"tool\": \"foo\"}"
LooseFoo  == "{\"tool\": \"foo\", \"arguments\": [1, 2]}"
LooseBare == "{\"tool\": \"foo\"}"
RawFooList == "{\"tool\": \"foo\", \"arguments\": []}"
RawBroken == "{\"tool\": \"get_quota\", \"arguments\": {oops}}"
LooseBroken == "{\"tool\": \"nope\", oops}"
FencedBroken ==
    "<fence>json\n{\"tool\": \"nope\", \"arguments\": {oops}}\n<fence>"

Pieces ==
    {Prose, RawQuota, RawNope, LooseNum, LooseList, FencedQuota, AltQuota,
     LooseFoo, LooseBare, RawFooList, RawBroken, LooseBroken, FencedBroken,
     RawYou, RawNested, AltNested}

\* The language models a request may be served by, and the pieces each one
\* produces: one that formats its tool calls as instructed, and one that
\* also produces objects whose "tool" value is not a text.
Models == {"instructed", "sloppy"}

Output(m) ==
    IF m = "instructed" THEN {Prose, RawQuota, RawNope}
    ELSE {RawQuota, LooseNum, LooseList}

\* What the four patterns of LLMClient find in a piece, and what json.loads
\* makes of the span: which pattern matches, whether the whole object
\* parses (methods 1 and 4 load it) and whether the arguments group parses
\* (methods 2 and 3 load only that), the value under "tool" (with its JSON
\* type), and the value under "arguments" with whether it is a mapping
\* (an absent one defaults to {}).
NoMatch ==
    [backtick |-> FALSE, raw |-> FALSE, alt |-> FALSE, loose |-> FALSE,
     json_ok |-> FALSE, args_ok |-> FALSE, tool |-> "", tool_type |-> "null",
     args_dict |-> FALSE, arguments |-> "{}"]

PieceInfo(t) ==
    CASE t = RawQuota  -> [NoMatch EXCEPT !.raw = TRUE, !.json_ok = TRUE,
                             !.args_ok = TRUE,
                             !.tool = "get_quota", !.tool_type = "str",
                             !.args_dict = TRUE]
      [] t = RawNope   -> [NoMatch EXCEPT !.raw = TRUE, !.json_ok = TRUE,
                             !.args_ok = TRUE,
                             !.tool = "nope", !.tool_type = "str",
                             !.args_dict = TRUE]
      [] t = LooseNum  -> [NoMatch EXCEPT !.loose = TRUE, !.json_ok = TRUE,
                             !.tool = "5", !.tool_type = "int"]
      [] t = LooseList -> [NoMatch EXCEPT !.loose = TRUE, !.json_ok = TRUE,
                             !.tool = "[\"x\"]", !.tool_type = "list"]
      [] t = FencedQuota ->
                          [NoMatch EXCEPT !.backtick = TRUE, !.raw = TRUE,
                             !.json_ok = TRUE, !.args_ok = TRUE,
                             !.tool = "get_quota", !.tool_type = "str",
                             !.args_dict = TRUE,
                             !.arguments = "{\"user\": \"me\"}"]
      [] t = AltQuota  -> [NoMatch EXCEPT !.alt = TRUE, !.args_ok = TRUE,
                             !.tool = "get_quota", !.tool_type = "str",
                             !.args_dict = TRUE,
                             !.arguments = "{\"user\": \"you\"}"]
      [] t = RawYou    -> [NoMatch EXCEPT !.raw = TRUE, !.args_ok = TRUE,
                             !.tool = "get_quota", !.tool_type = "str",
                             !.args_dict = TRUE,
                             !.arguments = "{\"user\": \"you\"}"]
      \* the raw pattern takes the arguments up to the first closing
      \* brace: in RawNested it matches the outer object with arguments
      \* that do not load, in AltNested it matches the inner object
      [] t = RawNested -> [NoMatch EXCEPT !.raw = TRUE,
                             !.tool = "foo", !.tool_type = "str"]
      [] t = AltNested -> [NoMatch EXCEPT !.raw = TRUE, !.args_ok = TRUE,
                             !.tool = "bar", !.tool_type = "str",
                             !.args_dict = TRUE]
      [] t = LooseFoo  -> [NoMatch EXCEPT !.loose = TRUE, !.json_ok = TRUE,
                             !.tool = "foo", !.tool_type = "str",
                             !.arguments = "[1, 2]"]
      [] t = LooseBare -> [NoMatch EXCEPT !.loose = TRUE, !.json_ok = TRUE,
                             !.tool = "foo", !.tool_type = "str",
                             !.args_dict = TRUE]
      [] t = RawFooList ->
                          [NoMatch EXCEPT !.raw = TRUE, !.loose = TRUE,
                             !.json_ok = TRUE, !.args_ok = TRUE,
                             !.tool = "foo", !.tool_type = "str",
                             !.arguments = "[]"]
      [] t = RawBroken -> [NoMatch EXCEPT !.raw = TRUE,
                             !.tool = "get_quota", !.tool_type = "str"]
      [] t = LooseBroken ->
                          [NoMatch EXCEPT !.loose = TRUE,
                             !.tool = "nope", !.tool_type = "str"]
      [] t = FencedBroken ->
                          [NoMatch EXCEPT !.backtick = TRUE, !.raw = TRUE,
                             !.tool = "nope", !.tool_type = "str"]
      [] OTHER         -> NoMatch

-----------------------------------------------------------------------------
(* LLMClient.parse_tool_calls                                              *)

\* `if tool_name`: Python truthiness of the value under "tool"
Truthy(info) ==
    /\ info.tool_type # "null"
    /\ ~(info.tool_type = "str" /\ info.tool = "")

\* `tool_name not in found_tools` raises TypeError for an unhashable value
Unhashable(info) == info.tool_type \in {"list", "dict"}

MethodMatches(method, info) ==
    CASE method = 1 -> info.backtick
      [] method = 2 -> info.raw
      [] method = 3 -> info.alt
      [] method = 4 -> info.loose

FoundTools(calls) ==
    {<<calls[i].name, calls[i].name_type>> : i \in 1..Len(calls)}

\* `arguments=arguments` without the isinstance test
MakeToolCallMutKeepArguments(info) ==
    [name |-> info.tool, name_type |-> info.tool_type,
     arguments |-> info.arguments]

MakeToolCall(info) ==
    [name |-> info.tool, name_type |-> info.tool_type,
     arguments |-> IF info.args_dict THEN info.arguments ELSE "{}"]

\* json.loads of the span the method loads: the whole object for the
\* fenced and the fallback pattern, the arguments group for the two inline
\* patterns; JSONDecodeError is caught and the loop continues
JsonOk(method, info) ==
    IF method \in {1, 4} THEN info.json_ok ELSE info.args_ok

\* the loop body without the test against found_tools
CandidateMutNoDedup(method, acc, t) ==
    LET info == PieceInfo(t) IN
    IF acc.raised \/ ~MethodMatches(method, info) THEN acc
    ELSE IF ~JsonOk(method, info) THEN acc
    ELSE IF ~Truthy(info) THEN acc
    ELSE IF Unhashable(info) THEN [acc EXCEPT !.raised = TRUE]
    ELSE [acc EXCEPT !.calls = Append(@, MakeToolCall(info))]

\* the loop body without the `except json.JSONDecodeError: continue`
CandidateMutDecodeErrorEscapes(method, acc, t) ==
    LET info == PieceInfo(t) IN
    IF acc.raised \/ ~MethodMatches(method, info) THEN acc
    ELSE IF ~JsonOk(method, info) THEN [acc EXCEPT !.raised = TRUE]
    ELSE IF ~Truthy(info) THEN acc
    ELSE IF Unhashable(info) THEN [acc EXCEPT !.raised = TRUE]
    ELSE IF <<info.tool, info.tool_type>> \in FoundTools(acc.calls) THEN acc
    ELSE [acc EXCEPT !.calls = Append(@, MakeToolCall(info))]

\* one iteration of a `for match in PATTERN.finditer(content)` loop
Candidate(method, acc, t) ==
    LET info == PieceInfo(t) IN
    IF acc.raised \/ ~MethodMatches(method, info) THEN acc
    ELSE IF ~JsonOk(method, info) THEN acc
    ELSE IF ~Truthy(info) THEN acc
    ELSE IF Unhashable(info) THEN [acc EXCEPT !.raised = TRUE]
    ELSE IF <<info.tool, info.tool_type>> \in FoundTools(acc.calls) THEN acc
    ELSE [acc EXCEPT !.calls = Append(@, MakeToolCall(info))]

RECURSIVE Scan(_, _, _, _)
Scan(method, content, i, acc) ==
    IF i > Len(content) THEN acc
    ELSE Scan(method, content, i + 1, Candidate(method, acc, content[i]))

\* Method 4 run unconditionally
FallbackAttemptedMutAlways(acc) == TRUE

\* Method 4 runs only `if not tool_calls`
FallbackAttempted(acc) == acc.calls = <<>>

ParseOutcome(content) ==
    LET a0 == [calls |-> <<>>, raised |-> FALSE]
        a1 == Scan(1, content, 1, a0)
        a2 == Scan(2, content, 1, a1)
        a3 == Scan(3, content, 1, a2)
    IN  IF FallbackAttempted(a3) THEN Scan(4, content, 1, a3) ELSE a3

parse_tool_calls(content) == ParseOutcome(content).calls
ParseRaises(content) == ParseOutcome(content).raised

LLMResponse(content) ==
    [content |-> content, tool_calls |-> parse_tool_calls(content)]

NoResponse == [content |-> <<>>, tool_calls |-> <<>>]

-----------------------------------------------------------------------------
(* MCPManager.execute_tool                                                 *)

\* json.dumps({"error": msg})
ErrorPayload(msg) == "{\"error\": \"" \o msg \o "\"}"

\* What the function of a registered tool does when called.
HandlerBehaviours == {"returns_text", "raises"}

\* The registries the worker may run against: one tool whose function
\* returns text, or one tool whose function raises.
Registries ==
    {[n \in {"get_quota"} |-> [server_name |-> "Quota", function |-> b]] :
        b \in HandlerBehaviours}

ReturnedText == "quota: 10 GB"
RaisedMessage == "disk offline"

\* unknown name: `self.tools[tool_name]` without the membership test
ExecuteToolMutKeyError(tool_name) ==
    IF tool_name \notin DOMAIN tools
    THEN [text |-> "", invoked |-> FALSE, raised |-> TRUE]
    ELSE IF tools[tool_name].function = "returns_text"
    THEN [text |-> ReturnedText, invoked |-> TRUE, raised |-> FALSE]
    ELSE [text |-> ErrorPayload("Tool execution error: " \o RaisedMessage),
          invoked |-> TRUE, raised |-> FALSE]

\* the call of tool.function outside the try block
ExecuteToolMutPropagate(tool_name) ==
    IF tool_name \notin DOMAIN tools
    THEN [text |-> ErrorPayload("Unknown tool: " \o tool_name),
          invoked |-> FALSE, raised |-> FALSE]
    ELSE IF tools[tool_name].function = "returns_text"
    THEN [text |-> ReturnedText, invoked |-> TRUE, raised |-> FALSE]
    ELSE [text |-> "", invoked |-> TRUE, raised |-> TRUE]

\* self.tools after execute_tool(tool_name): the method tests membership
\* and reads self.tools[tool_name]; it assigns to no attribute
RegistryAfterMutPops(registry, tool_name) ==
    [n \in DOMAIN registry \ {tool_name} |-> registry[n]]
RegistryAfter(registry, tool_name) == registry

\* text: the returned str; invoked: tool.function was called;
\* raised: an exception leaves execute_tool
execute_tool(tool_name) ==
    IF tool_name \notin DOMAIN tools
    THEN [text |-> ErrorPayload("Unknown tool: " \o tool_name),
          invoked |-> FALSE, raised |-> FALSE]
    ELSE IF tools[tool_name].function = "returns_text"
    THEN [text |-> ReturnedText, invoked |-> TRUE, raised |-> FALSE]
    ELSE [text |-> ErrorPayload("Tool execution error: " \o RaisedMessage),
          invoked |-> TRUE, raised |-> FALSE]

-----------------------------------------------------------------------------
(* Signals                                                                 *)

Signal(kind, name, text) == [kind |-> kind, name |-> name, text |-> text]

Kinds(log) == [i \in 1..Len(log) |-> log[i].kind]

OfKind(log, kind) == SelectSeq(log, LAMBDA e : e.kind = kind)

\* the signals that cancellation suppresses
Progress(log) == SelectSeq(log, LAMBDA e : e.kind # "error")

RECURSIVE Concat(_)
Concat(texts) ==
    IF texts = <<>> THEN <<>> ELSE Head(texts) \o Concat(Tail(texts))

\* payloads of the chunk signals emitted since the current turn started
TurnChunks ==
    LET chunks == OfKind(emitted, "chunk")
    IN  [i \in 1..Len(chunks) |-> chunks[i].text]

-----------------------------------------------------------------------------------------------------------------------------------------------------
(* ChatWorker                                                              *)

InitialMessages ==
    << [role |-> "system", content |-> <<"You are a helpful assistant.">>],
       [role |-> "user", content |-> <<"How much quota do I have?">>] >>

RECURSIVE PiecesOf(_)
PiecesOf(msgs) ==
    IF msgs = <<>> THEN 0
    ELSE (IF Head(msgs).role = "assistant" THEN Len(Head(msgs).content) ELSE 0)
         + PiecesOf(Tail(msgs))

PiecesInHistory == PiecesOf(messages)

\* no call of parse_tool_calls() on its own is under way
ParseIdle ==
    /\ parse_content = <<>>
    /\ tool_calls = <<>>
    /\ parse_pc = "idle"

\* no session is open
WindowIdle ==
    /\ current_worker = 0
    /\ threads = <<>>
    /\ worker_cancelled = {}
    /\ connected = {}
    /\ queued = <<>>
    /\ input_enabled = FALSE
    /\ timers = 0
    /\ ui_pc = "idle"
    /\ conversation_history = <<>>
    /\ last_signal = <<>>

\* load_mcps() is not under way
LoadIdle ==
    /\ config = <<>>
    /\ load_idx = 0
    /\ servers = <<>>
    /\ load_pc = "idle"

\* no call of chat_stream() on its own is under way
FramesIdle ==
    /\ body = <<>>
    /\ line_idx = 0
    /\ stream_content = <<>>
    /\ on_chunk_calls = <<>>
    /\ stream_error = ""
    /\ stream_pc = "idle"

\* no connection probe is under way
NoOutcome == [kind |-> "none", status |-> "", error |-> ""]
NoResult == [connected |-> FALSE, msg |-> ""]

ProbeIdle ==
    /\ probe_outcome = NoOutcome
    /\ probe_result = NoResult
    /\ probe_pc = "off"
    /\ probes = 0
    /\ status_message = ""

\* run() is about to start
RunInit ==
    /\ is_cancelled = FALSE
    /\ pc = "loop"
    /\ iterations = 0
    /\ final_content = <<>>
    /\ messages = InitialMessages
    /\ caller_messages = InitialMessages
    /\ response = NoResponse
    /\ cancelled = FALSE
    /\ full_content = <<>>
    /\ lineNo = 0
    /\ chunk = <<>>
    /\ chunk_cancelled = FALSE
    /\ chunk_ret = "none"
    /\ tool_idx = 0
    /\ tool_results = <<>>
    /\ result = ""
    /\ error_text = ""
    /\ emitted = <<>>
    /\ observed = FALSE
    /\ handlerCalls = <<>>
    /\ retries = 0
    /\ turnPath = "none"
    /\ completed = FALSE
    /\ streamCalls = 0
    /\ failed = FALSE
    /\ cancelBetween = 0

\* a worker that was constructed and whose run() is about to start
WorkerInit ==
    /\ model \in Models
    /\ tools \in Registries
    /\ RunInit

\* a worker that takes no step
WorkerIdle ==
    /\ WorkerInit
    /\ model = "instructed"
    /\ tools["get_quota"].function = "returns_text"

Init ==
    /\ WorkerInit
    /\ ParseIdle
    /\ WindowIdle
    /\ LoadIdle
    /\ FramesIdle
    /\ ProbeIdle

\* `while iterations < self.MAX_TOOL_ITERATIONS`
WhileCondMutOffByOne(i) == i <= MAX_TOOL_ITERATIONS
WhileCond(i) == i < MAX_TOOL_ITERATIONS

\* `if cancelled: break` at the start of a turn
TurnStartBreakMutNever(c) == FALSE
TurnStartBreak(c) == c

\* top of the while loop: the loop test, the first cancellation check and
\* `iterations += 1`
LoopCheck ==
    /\ pc = "loop"
    /\ IF ~WhileCond(iterations)
       THEN /\ pc' = "final"
            /\ UNCHANGED <<cancelled, observed, iterations, retries,
                           turnPath, completed, emitted>>
       ELSE /\ cancelled' = is_cancelled
            /\ observed' = (observed \/ is_cancelled)
            /\ IF TurnStartBreak(is_cancelled)
               THEN /\ pc' = "final"
                    /\ UNCHANGED <<iterations, retries, turnPath, completed,
                                   emitted>>
               ELSE /\ pc' = "stream_post"
                    /\ iterations' = iterations + 1
                    /\ retries' = 0
                    /\ turnPath' = "none"
                    /\ completed' = FALSE
                    /\ emitted' = <<>>
    /\ UNCHANGED <<is_cancelled, envVars, caller_messages,
                   final_content, messages, response,
                   streamVars, chunkVars, toolVars, error_text, handlerCalls,
                   streamCalls, failed, cancelBetween>>

\* chat_stream(): requests.post(..., stream=True) and the status check
StreamPost ==
    /\ pc = "stream_post"
    /\ streamCalls' = streamCalls + 1
    /\ \E ok \in BOOLEAN :
          IF ok
          THEN /\ pc' = "stream_read"
               /\ turnPath' = "stream"
               /\ UNCHANGED failed
          ELSE /\ pc' = "fallback"
               /\ turnPath' = "stream_failed"
               /\ failed' = TRUE
    /\ full_content' = <<>>
    /\ lineNo' = 0
    /\ UNCHANGED <<is_cancelled, envVars, caller_messages,
                   iterations, final_content, messages,
                   response, cancelled, chunkVars, toolVars, error_text,
                   emitted, observed, handlerCalls, retries, completed,
                   cancelBetween>>

\* chat_stream(): a line that adds nothing: an empty line, a frame that is
\* not JSON, a frame without choices, a frame with an empty or missing delta
StreamSkipLine ==
    /\ pc = "stream_read"
    /\ lineNo < MaxLines
    /\ lineNo' = lineNo + 1
    /\ UNCHANGED <<is_cancelled, envVars, caller_messages,
                   pc, iterations, final_content,
                   messages, response, cancelled, full_content, chunkVars,
                   toolVars, error_text, emitted, observed, handlerCalls,
                   retries, turnPath, completed, streamCalls, failed,
                   cancelBetween>>

\* `full_content += content`
AccumulateMutReplace(full, content) == content
Accumulate(full, content) == full \o content

\* chat_stream(): a frame with a non-empty delta: accumulate, then on_chunk
StreamDelta ==
    /\ pc = "stream_read"
    /\ lineNo < MaxLines
    /\ PiecesInHistory + Len(full_content) < MaxDeltas
    /\ \E t \in Output(model) :
          /\ full_content' = Accumulate(full_content, <<t>>)
          /\ chunk' = <<t>>
    /\ lineNo' = lineNo + 1
    /\ chunk_ret' = "stream_read"
    /\ pc' = "chunk_read"
    /\ UNCHANGED <<is_cancelled, envVars, caller_messages,
                   iterations, final_content, messages,
                   response, cancelled, chunk_cancelled, toolVars, error_text,
                   emitted, observed, handlerCalls, retries, turnPath,
                   completed, streamCalls, failed, cancelBetween>>

\* chat_stream(): the [DONE] line or the end of the lines, then
\* parse_tool_calls(full_content), which may raise
StreamEnd ==
    /\ pc = "stream_read"
    /\ IF ParseRaises(full_content)
       THEN /\ pc' = "fallback"
            /\ turnPath' = "stream_failed"
            /\ failed' = TRUE
            /\ UNCHANGED response
       ELSE /\ pc' = "after_content"
            /\ turnPath' = "streamed"
            /\ response' = LLMResponse(full_content)
            /\ UNCHANGED failed
    /\ full_content' = <<>>
    /\ lineNo' = 0
    /\ UNCHANGED <<is_cancelled, envVars, caller_messages,
                   iterations, final_content, messages,
                   cancelled, chunkVars, toolVars, error_text, emitted,
                   observed, handlerCalls, retries, completed, streamCalls,
                   cancelBetween>>

\* chat_stream(): iter_lines() raises (the connection breaks), or a frame is
\* JSON but no object, so that `'choices' in chunk` raises
StreamRaise ==
    /\ pc = "stream_read"
    /\ pc' = "fallback"
    /\ turnPath' = "stream_failed"
    /\ failed' = TRUE
    /\ full_content' = <<>>
    /\ lineNo' = 0
    /\ UNCHANGED <<is_cancelled, envVars, caller_messages,
                   iterations, final_content, messages,
                   response, cancelled, chunkVars, toolVars, error_text,
                   emitted, observed, handlerCalls, retries, completed,
                   streamCalls, cancelBetween>>

\* _emit_chunk(): read the flag under the mutex
EmitChunkRead ==
    /\ pc = "chunk_read"
    /\ chunk_cancelled' = is_cancelled
    /\ observed' = (observed \/ is_cancelled)
    /\ pc' = "chunk_emit"
    /\ UNCHANGED <<is_cancelled, envVars, caller_messages,
                   iterations, final_content, messages,
                   response, cancelled, streamVars, chunk, chunk_ret,
                   toolVars, error_text, emitted, handlerCalls, retries,
                   turnPath, completed, streamCalls, failed, cancelBetween>>

\* _emit_chunk(): `if not cancelled: self.chunk_received.emit(chunk)`
EmitChunkEmit ==
    /\ pc = "chunk_emit"
    /\ emitted' = IF chunk_cancelled THEN emitted
                  ELSE Append(emitted, Signal("chunk", "", chunk))
    /\ pc' = chunk_ret
    /\ chunk' = <<>>
    /\ chunk_cancelled' = FALSE
    /\ chunk_ret' = "none"
    /\ UNCHANGED <<is_cancelled, envVars, caller_messages,
                   iterations, final_content, messages,
                   response, cancelled, streamVars, toolVars, error_text,
                   observed, handlerCalls, retries, turnPath, completed,
                   streamCalls, failed, cancelBetween>>

\* what chat() may return as content: nothing, or one piece
ChatContents ==
    {<<>>} \cup (IF PiecesInHistory < MaxDeltas
                 THEN {<<t>> : t \in Output(model)}
                 ELSE {})

\* where run() goes when chat() raises: to its `except Exception`
AfterChatRaisesMutRetry == "fallback"
AfterChatRaises == "except"

\* `except Exception: response = self.llm_client.chat(self.messages)`;
\* chat() returns a response
ChatFallbackReturns ==
    /\ pc = "fallback"
    /\ retries' = retries + 1
    /\ turnPath' = "retried"
    /\ \E content \in ChatContents :
          /\ ~ParseRaises(content)
          /\ response' = LLMResponse(content)
          /\ IF content # <<>>
             THEN /\ chunk' = content
                  /\ chunk_ret' = "after_content"
                  /\ pc' = "chunk_read"
             ELSE /\ pc' = "after_content"
                  /\ UNCHANGED <<chunk, chunk_ret>>
    /\ UNCHANGED <<is_cancelled, envVars, caller_messages,
                   iterations, final_content, messages,
                   cancelled, streamVars, chunk_cancelled, toolVars,
                   error_text, emitted, observed, handlerCalls, completed,
                   streamCalls, failed, cancelBetween>>

\* chat() raises: the request fails, the status is not 200, the body is not
\* the expected JSON, or parse_tool_calls raises on the content
ChatFallbackRaises ==
    /\ pc = "fallback"
    /\ retries' = retries + 1
    /\ turnPath' = "failed"
    /\ failed' = TRUE
    /\ \E text \in {"API error 500", "unhashable type: 'list'"} :
          error_text' = text
    /\ pc' = AfterChatRaises
    /\ UNCHANGED <<is_cancelled, envVars, caller_messages,
                   iterations, final_content, messages,
                   response, cancelled, streamVars, chunkVars, toolVars,
                   emitted, observed, handlerCalls, completed, streamCalls,
                   cancelBetween>>

\* `self.messages = messages.copy()`: the worker's list is a list of its
\* own; without the copy it would be the caller's list itself
CopiesMessagesMutAlias == FALSE
CopiesMessages == TRUE

\* `self.messages.append({...})`: the message goes to the end of the
\* worker's list
AppendMessageMutInsertFront(msgs, m) == <<m>> \o msgs
AppendMessage(msgs, m) == Append(msgs, m)

\* `if response.tool_calls`
HasToolCallsMutAlways(resp) == TRUE
HasToolCalls(resp) == resp.tool_calls # <<>>

\* the cancellation check after the content was obtained, then
\* `final_content = response.content` and the branch on tool_calls
AfterContent ==
    /\ pc = "after_content"
    /\ cancelled' = is_cancelled
    /\ observed' = (observed \/ is_cancelled)
    /\ completed' = ~is_cancelled
    /\ IF is_cancelled
       THEN /\ pc' = "final"
            /\ UNCHANGED <<final_content, messages, tool_results, tool_idx>>
       ELSE /\ final_content' = response.content
            /\ IF HasToolCalls(response)
               THEN /\ messages' = AppendMessage(messages,
                          [role |-> "assistant", content |-> response.content])
                    /\ tool_results' = <<>>
                    /\ tool_idx' = 1
                    /\ pc' = "tool_check"
               ELSE /\ pc' = "final"
                    /\ UNCHANGED <<messages, tool_results, tool_idx>>
    /\ caller_messages' = IF CopiesMessages THEN caller_messages
                        ELSE messages'
    /\ UNCHANGED <<is_cancelled, envVars, iterations, response, streamVars,
                   chunkVars, result, error_text, emitted, handlerCalls,
                   retries, turnPath, streamCalls, failed, cancelBetween>>

\* `if cancelled: break` inside the for loop
ToolLoopBreakMutNever(c) == FALSE
ToolLoopBreak(c) == c

\* head of `for tool_call in response.tool_calls` and its cancellation check
ToolCheck ==
    /\ pc = "tool_check"
    /\ IF tool_idx > Len(response.tool_calls)
       THEN /\ pc' = "tools_done"
            /\ UNCHANGED <<cancelled, observed>>
       ELSE /\ cancelled' = is_cancelled
            /\ observed' = (observed \/ is_cancelled)
            /\ pc' = IF ToolLoopBreak(is_cancelled) THEN "tools_done"
                     ELSE "tool_start"
    /\ UNCHANGED <<is_cancelled, envVars, caller_messages,
                   iterations, final_content, messages,
                   response, streamVars, chunkVars, toolVars, error_text,
                   emitted, handlerCalls, retries, turnPath, completed,
                   streamCalls, failed, cancelBetween>>

\* `self.tool_call_detected.emit(tool_call.name)`: the signal is declared
\* pyqtSignal(str), and emit() raises TypeError for a name that is no str
ToolStart ==
    /\ pc = "tool_start"
    /\ LET tool_call == response.tool_calls[tool_idx] IN
       IF tool_call.name_type = "str"
       THEN /\ emitted' = Append(emitted,
                   Signal("toolCallStarted", tool_call.name, <<>>))
            /\ pc' = "tool_exec"
            /\ UNCHANGED error_text
       ELSE /\ error_text' = "emit(): argument 1 has unexpected type"
            /\ pc' = "except"
            /\ UNCHANGED emitted
    /\ UNCHANGED <<is_cancelled, envVars, caller_messages,
                   iterations, final_content, messages,
                   response, cancelled, streamVars, chunkVars, toolVars,
                   observed, handlerCalls, retries, turnPath, completed,
                   streamCalls, failed, cancelBetween>>

\* `result = self.mcp_manager.execute_tool(name, arguments)`
ToolExec ==
    /\ pc = "tool_exec"
    /\ LET tool_call == response.tool_calls[tool_idx]
           out == execute_tool(tool_call.name)
       IN  /\ handlerCalls' = IF out.invoked
                              THEN Append(handlerCalls, tool_call.name)
                              ELSE handlerCalls
           /\ IF out.raised
              THEN /\ error_text' = "execute_tool raised"
                   /\ pc' = "except"
                   /\ UNCHANGED result
              ELSE /\ result' = out.text
                   /\ pc' = "tool_result"
                   /\ UNCHANGED error_text
           /\ tools' = RegistryAfter(tools, tool_call.name)
    /\ UNCHANGED <<is_cancelled, model, parseVars, windowVars, loaderVars,
                   frameVars, probeVars, caller_messages,
                   iterations, final_content, messages,
                   response, cancelled, streamVars, chunkVars, tool_idx,
                   tool_results, emitted, observed, retries, turnPath,
                   completed, streamCalls, failed, cancelBetween>>

\* f"Tool: {tool_call.name}\nResult:\n{result}"
ResultBlock(name, text) == <<"Tool: " \o name, "Result:", text>>

\* the for loop moves on to the call that follows in response.tool_calls
NextCallMutSkip(i) == i + 2
NextCall(i) == i + 1

\* `self.tool_result_received.emit(name, result)` and
\* `tool_results.append(...)`
ToolResult ==
    /\ pc = "tool_result"
    /\ LET tool_call == response.tool_calls[tool_idx] IN
       /\ emitted' = Append(emitted,
              Signal("toolResult", tool_call.name, <<result>>))
       /\ tool_results' = Append(tool_results,
              ResultBlock(tool_call.name, result))
    /\ tool_idx' = NextCall(tool_idx)
    /\ result' = ""
    /\ pc' = "tool_check"
    /\ UNCHANGED <<is_cancelled, envVars, caller_messages,
                   iterations, final_content, messages,
                   response, cancelled, streamVars, chunkVars, error_text,
                   observed, handlerCalls, retries, turnPath, completed,
                   streamCalls, failed, cancelBetween>>

\* "\n\n".join(tool_results): an empty line between the blocks
RECURSIVE Join(_)
Join(blocks) ==
    IF blocks = <<>> THEN <<>>
    ELSE IF Len(blocks) = 1 THEN Head(blocks)
    ELSE Head(blocks) \o <<"">> \o Join(Tail(blocks))

ResultsMessage(blocks) ==
    <<"Here are the tool results:", "">> \o Join(blocks)
        \o <<"", "Please interpret these results for the user.">>

\* where run() goes on after the tool calls of a turn: `continue`, or the
\* end of the loop body, both lead to the loop test
AfterToolsMutBreak == "final"
AfterTools == "loop"

\* after the for loop: the cancellation check, the results message and
\* `continue` (or falling through to the loop test)
ToolsDone ==
    /\ pc = "tools_done"
    /\ cancelled' = is_cancelled
    /\ observed' = (observed \/ is_cancelled)
    /\ messages' = IF tool_results # <<>> /\ ~is_cancelled
                   THEN AppendMessage(messages, [role |-> "user",
                            content |-> ResultsMessage(tool_results)])
                   ELSE messages
    /\ pc' = AfterTools
    /\ caller_messages' = IF CopiesMessages THEN caller_messages
                        ELSE messages'
    /\ UNCHANGED <<is_cancelled, envVars, iterations, final_content, response,
                   streamVars, chunkVars, toolVars, error_text, emitted,
                   handlerCalls, retries, turnPath, completed, streamCalls,
                   failed, cancelBetween>>

\* `if not cancelled: self.finished.emit(final_content)`
EmitsFinishedMutAlways(c) == TRUE
EmitsFinished(c) == ~c

\* after the loop: the last cancellation check, under the mutex
Final ==
    /\ pc = "final"
    /\ cancelled' = is_cancelled
    /\ observed' = (observed \/ is_cancelled)
    /\ pc' = IF EmitsFinished(is_cancelled) THEN "final_emit" ELSE "done"
    /\ UNCHANGED <<is_cancelled, envVars, caller_messages,
                   iterations, final_content, messages,
                   response, streamVars, chunkVars, toolVars, error_text,
                   emitted, handlerCalls, retries, turnPath, completed,
                   streamCalls, failed, cancelBetween>>

\* `self.finished.emit(final_content)`, after the mutex was released
FinalEmit ==
    /\ pc = "final_emit"
    /\ emitted' = Append(emitted, Signal("finished", "", final_content))
    /\ pc' = "done"
    /\ UNCHANGED <<is_cancelled, envVars, caller_messages,
                   iterations, final_content, messages,
                   response, cancelled, streamVars, chunkVars, toolVars,
                   error_text, observed, handlerCalls, retries, turnPath,
                   completed, streamCalls, failed, cancelBetween>>

\* the except clause is the last statement of run(): the thread ends
AfterExceptMutFallsThrough == "final"
AfterExceptMutHangs == "hung"
AfterExcept == "done"

\* `except Exception as e: self.error_occurred.emit(str(e))`
Except ==
    /\ pc = "except"
    /\ emitted' = Append(emitted, Signal("error", "", <<error_text>>))
    /\ pc' = AfterExcept
    /\ UNCHANGED <<is_cancelled, envVars, caller_messages,
                   iterations, final_content, messages,
                   response, cancelled, streamVars, chunkVars, toolVars,
                   error_text, observed, handlerCalls, retries, turnPath,
                   completed, streamCalls, failed, cancelBetween>>

\* ChatWorker.cancel(), called from another thread at any moment
Cancel ==
    /\ ~is_cancelled
    /\ is_cancelled' = TRUE
    /\ cancelBetween' = IF pc = "tool_check" THEN tool_idx - 1 ELSE 0
    /\ UNCHANGED <<envVars, caller_messages, pc,
                   iterations, final_content, messages, response,
                   cancelled, streamVars, chunkVars, toolVars, error_text,
                   emitted, observed, handlerCalls, retries, turnPath,
                   completed, streamCalls, failed>>

\* the steps of the worker thread
RunStep ==
    \/ LoopCheck
    \/ StreamPost
    \/ StreamSkipLine
    \/ StreamDelta
    \/ StreamEnd
    \/ StreamRaise
    \/ EmitChunkRead
    \/ EmitChunkEmit
    \/ ChatFallbackReturns
    \/ ChatFallbackRaises
    \/ AfterContent
    \/ ToolCheck
    \/ ToolStart
    \/ ToolExec
    \/ ToolResult
    \/ ToolsDone
    \/ Final
    \/ FinalEmit
    \/ Except

Next ==
    \/ RunStep
    \/ Cancel

Spec == Init /\ [][Next]_vars

\* the worker thread keeps being scheduled until run() has ended, and
\* every call it makes (the requests, the tool handlers) returns or fails
LiveSpec == Init /\ [][Next]_vars /\ WF_vars(RunStep)

-----------------------------------------------------------------------------
(* One call of LLMClient.parse_tool_calls on a text of its own, taken one  *)
(* method at a time.                                                       *)

\* the texts: up to MaxPieces pieces, in any order
ParseInputs ==
    UNION {[1..n -> Pieces] : n \in 0..MaxPieces}

ParseInit ==
    /\ WorkerIdle
    /\ WindowIdle
    /\ LoadIdle
    /\ FramesIdle
    /\ ProbeIdle
    /\ parse_content \in ParseInputs
    /\ tool_calls = <<>>
    /\ parse_pc = "method1"

\* one `for match in PATTERN.finditer(content)` loop, run to its end or to
\* the exception that leaves it
RunMethod(method, here, next) ==
    /\ parse_pc = here
    /\ LET acc == Scan(method, parse_content, 1,
                       [calls |-> tool_calls, raised |-> FALSE])
       IN  /\ tool_calls' = acc.calls
           /\ parse_pc' = IF acc.raised THEN "raised" ELSE next
    /\ UNCHANGED <<parse_content, outsideParse>>

\* Method 1: the backtick-wrapped format
ParseBacktick == RunMethod(1, "method1", "method2")

\* Method 2: the raw JSON pattern
ParseRaw == RunMethod(2, "method2", "method3")

\* Method 3: the raw pattern with the arguments first
ParseAlt == RunMethod(3, "method3", "method4")

\* Method 4, entered only `if not tool_calls`
ParseFallback ==
    /\ parse_pc = "method4"
    /\ FallbackAttempted([calls |-> tool_calls, raised |-> FALSE])
    /\ RunMethod(4, "method4", "return")

\* `if not tool_calls` is false: Method 4 is passed over
ParseSkipFallback ==
    /\ parse_pc = "method4"
    /\ ~FallbackAttempted([calls |-> tool_calls, raised |-> FALSE])
    /\ parse_pc' = "return"
    /\ UNCHANGED <<parse_content, tool_calls, outsideParse>>

\* `return tool_calls`
ParseReturn ==
    /\ parse_pc = "return"
    /\ parse_pc' = "returned"
    /\ UNCHANGED <<parse_content, tool_calls, outsideParse>>

ParseNext ==
    \/ ParseBacktick
    \/ ParseRaw
    \/ ParseAlt
    \/ ParseFallback
    \/ ParseSkipFallback
    \/ ParseReturn

ParseSpec == ParseInit /\ [][ParseNext]_vars

-----------------------------------------------------------------------------
(* ChatbotWindow: one conversation session and the workers it starts.  A   *)
(* worker is taken as a thread that emits at most one terminal signal      *)
(* (finished or error_occurred) and returns; the window's handlers run on  *)
(* the GUI thread, one at a time.                                          *)

Workers == 1..MaxWorkers

\* QThread.isRunning()
IsRunning(w) == threads[w] \in {"running", "emitted"}

WindowInit ==
    /\ WorkerIdle
    /\ ParseIdle
    /\ LoadIdle
    /\ FramesIdle
    /\ ProbeIdle
    /\ current_worker = 0
    /\ threads = [w \in Workers |-> "new"]
    /\ worker_cancelled = {}
    /\ connected = {}
    /\ queued = <<>>
    /\ input_enabled = TRUE
    /\ timers = 0
    /\ ui_pc = "idle"
    /\ conversation_history = <<>>
    /\ last_signal = [w \in Workers |-> "none"]

\* the worker send_message constructs next
NextWorker == CHOOSE w \in Workers :
    threads[w] = "new" /\ \A v \in Workers : threads[v] = "new" => w <= v

\* the five disconnect() calls of _cleanup_worker on worker w: the slot
\* proxies of its connections are disabled, so that its signals are no
\* longer posted and those posted but not yet delivered are ignored
DisconnectedMutStaysConnected(c, w) == c
Disconnected(c, w) == c \ {w}

\* the end of _cleanup_worker and of send_message: deleteLater(), then
\* ChatWorker(...), the connect() calls and start(); cleaned is the worker
\* _cleanup_worker has disconnected (0: none)
StartWorker(cleaned) ==
    /\ current_worker' = NextWorker
    /\ threads' = [threads EXCEPT ![NextWorker] = "running"]
    /\ connected' = Disconnected(connected, cleaned) \cup {NextWorker}
    /\ ui_pc' = "idle"

\* the message send_message appends for the request it starts, and the one
\* _on_finished appends for the finished signal of a worker; a message is
\* taken as its role and the request it belongs to
UserMessage(w) == [role |-> "user", request |-> w]
AssistantMessage(w) == [role |-> "assistant", request |-> w]

\* the signals of a worker: those run() emits while it goes on, and those
\* it ends with
ProgressKinds == {"chunk", "toolCallStarted", "toolResult"}
TerminalKinds == {"finished", "error"}
TerminalSignals(q) == SelectSeq(q, LAMBDA e : e.kind \in TerminalKinds)

\* what _on_finished appends for the signals of a queue, in their order
\* (_on_error appends nothing)
AssistantMessages(q) ==
    LET done == SelectSeq(q, LAMBDA e : e.kind = "finished") IN
    [i \in 1..Len(done) |-> AssistantMessage(done[i].worker)]

\* send_message(), up to the start of the new worker or, when the previous
\* worker is still running, up to current_worker.wait(3000).  After the
\* user's message was appended and the input disabled, _scroll_to_bottom()
\* calls QApplication.processEvents(), which delivers the signals posted
\* so far: their handlers run inside send_message.
SendMessage ==
    /\ ui_pc = "idle"
    /\ input_enabled
    /\ \E w \in Workers : threads[w] = "new"
    /\ timers + Len(TerminalSignals(queued)) <= MaxTimers
    /\ conversation_history' =
          Append(conversation_history, UserMessage(NextWorker))
              \o AssistantMessages(queued)
    /\ queued' = <<>>
    /\ timers' = timers + Len(TerminalSignals(queued))
    /\ input_enabled' = (TerminalSignals(queued) # <<>>)
    /\ IF current_worker = 0
       THEN /\ StartWorker(0)
            /\ UNCHANGED worker_cancelled
       ELSE /\ worker_cancelled' = worker_cancelled \cup {current_worker}
            /\ IF IsRunning(current_worker)
               THEN /\ ui_pc' = "waiting"
                    /\ connected' = Disconnected(connected, current_worker)
                    /\ UNCHANGED <<current_worker, threads>>
               ELSE StartWorker(current_worker)
    /\ UNCHANGED <<last_signal, outsideWindow>>

\* wait(3000) returns because the previous worker's thread has finished
WaitJoined ==
    /\ ui_pc = "waiting"
    /\ ~IsRunning(current_worker)
    /\ StartWorker(current_worker)
    /\ UNCHANGED <<worker_cancelled, queued, input_enabled, timers,
                   conversation_history, last_signal, outsideWindow>>

\* wait(3000) returns after 3 seconds with the previous worker's thread
\* still running
WaitTimedOut ==
    /\ ui_pc = "waiting"
    /\ IsRunning(current_worker)
    /\ StartWorker(current_worker)
    /\ UNCHANGED <<worker_cancelled, queued, input_enabled, timers,
                   conversation_history, last_signal, outsideWindow>>

\* signal.emit() in the thread of worker w: the signal is posted to the
\* GUI thread for the slots connected at that time
Post(q, w, kind) ==
    IF w \in connected THEN Append(q, [worker |-> w, kind |-> kind]) ELSE q

\* run() of worker w emits chunk_received, tool_call_detected or
\* tool_result_received
WorkerEmitsProgress ==
    \E w \in Workers, kind \in ProgressKinds :
        /\ threads[w] = "running"
        /\ Len(queued) < MaxQueued
        /\ queued' = Post(queued, w, kind)
        /\ last_signal' = [last_signal EXCEPT ![w] = kind]
        /\ UNCHANGED <<current_worker, threads, worker_cancelled, connected,
                       input_enabled, timers, ui_pc, conversation_history,
                       outsideWindow>>

\* run() of worker w emits finished or error_occurred
WorkerEmitsTerminal ==
    \E w \in Workers, kind \in TerminalKinds :
        /\ threads[w] = "running"
        /\ threads' = [threads EXCEPT ![w] = "emitted"]
        /\ queued' = Post(queued, w, kind)
        /\ last_signal' = [last_signal EXCEPT ![w] = kind]
        /\ UNCHANGED <<current_worker, worker_cancelled, connected,
                       input_enabled, timers, ui_pc, conversation_history,
                       outsideWindow>>

\* run() of worker w returns: after its terminal signal, or silently once
\* it was cancelled
WorkerReturns ==
    \E w \in Workers :
        /\ \/ threads[w] = "emitted"
           \/ threads[w] = "running" /\ w \in worker_cancelled
        /\ threads' = [threads EXCEPT ![w] = "finished"]
        /\ UNCHANGED <<current_worker, worker_cancelled, connected, queued,
                       input_enabled, timers, ui_pc, conversation_history,
                       last_signal, outsideWindow>>

\* _on_chunk(), _on_tool_call_detected() or _on_tool_result() for the
\* next posted signal: they change widgets only
OnProgress ==
    /\ ui_pc = "idle"
    /\ queued # <<>>
    /\ Head(queued).kind \in ProgressKinds
    /\ queued' = Tail(queued)
    /\ UNCHANGED <<current_worker, threads, worker_cancelled, connected,
                   input_enabled, timers, ui_pc, conversation_history,
                   last_signal, outsideWindow>>

\* _on_finished() or _on_error() for the next posted signal
OnTerminal ==
    /\ ui_pc = "idle"
    /\ queued # <<>>
    /\ Head(queued).kind \in TerminalKinds
    /\ timers < MaxTimers
    /\ queued' = Tail(queued)
    /\ conversation_history' =
          conversation_history \o AssistantMessages(<<Head(queued)>>)
    /\ input_enabled' = TRUE
    /\ timers' = timers + 1
    /\ UNCHANGED <<current_worker, threads, worker_cancelled, connected,
                   ui_pc, last_signal, outsideWindow>>

\* stop_request(), which the stop button calls
StopRequest ==
    /\ ui_pc = "idle"
    /\ ~input_enabled
    /\ IF current_worker # 0
       THEN /\ timers < MaxTimers
            /\ worker_cancelled' = worker_cancelled \cup {current_worker}
            /\ timers' = timers + 1
       ELSE UNCHANGED <<worker_cancelled, timers>>
    /\ input_enabled' = TRUE
    /\ UNCHANGED <<current_worker, threads, connected, queued, ui_pc,
                   conversation_history, last_signal, outsideWindow>>

\* _delayed_cleanup(), when one of its timers fires
DelayedCleanup ==
    /\ ui_pc = "idle"
    /\ timers > 0
    /\ timers' = timers - 1
    /\ current_worker' =
          IF current_worker # 0 /\ ~IsRunning(current_worker)
          THEN 0 ELSE current_worker
    /\ UNCHANGED <<threads, worker_cancelled, connected, queued,
                   input_enabled, ui_pc, conversation_history, last_signal,
                   outsideWindow>>

WindowNext ==
    \/ SendMessage
    \/ WaitJoined
    \/ WaitTimedOut
    \/ WorkerEmitsProgress
    \/ WorkerEmitsTerminal
    \/ WorkerReturns
    \/ OnProgress
    \/ OnTerminal
    \/ StopRequest
    \/ DelayedCleanup

WindowSpec == WindowInit /\ [][WindowNext]_vars

-----------------------------------------------------------------------------
(* One call of LLMClient.chat_stream on a response of its own: the request *)
(* was answered with status 200 and the for loop takes the lines of the    *)
(* body one by one.  Each line is the text it stands for.                  *)

\* lines of one response body
MaxFrames == 3

EmptyLine        == ""
FrameHel         == "data: {\"choices\": [{\"delta\": {\"content\": \"Hel\"}}]}"
FrameLo          == "data: {\"choices\": [{\"delta\": {\"content\": \"lo\"}}]}"
FrameBare        == "{\"choices\": [{\"delta\": {\"content\": \"!\"}}]}"
FrameDone        == "data: [DONE]"
FrameEvent       == "event: message"
FrameNotJson     == "data: {oops"
FrameNoChoices   == "data: {\"id\": 1}"
FrameEmptyDelta  == "data: {\"choices\": [{\"delta\": {}}]}"
FrameNullContent == "data: {\"choices\": [{\"delta\": {\"content\": null}}]}"
FrameEmptyText   == "data: {\"choices\": [{\"delta\": {\"content\": \"\"}}]}"
FrameNumber      == "data: 5"
FrameNullDelta   == "data: {\"choices\": [{\"delta\": null}]}"
FrameNumContent  == "data: {\"choices\": [{\"delta\": {\"content\": 5}}]}"
\* <ff fe> stands for the two bytes 0xff 0xfe, which are no UTF-8 text
FrameBadBytes    == "data: <ff fe>"

Frames ==
    {EmptyLine, FrameHel, FrameLo, FrameBare, FrameDone, FrameEvent,
     FrameNotJson, FrameNoChoices, FrameEmptyDelta, FrameNullContent,
     FrameNumber, FrameNullDelta, FrameNumContent, FrameBadBytes,
     FrameEmptyText}

\* what the statements of the loop body find in a line:
\*   empty    `not line`
\*   utf8     line.decode('utf-8') succeeds
\*   done     the text after the "data: " prefix, stripped, is [DONE]
\*   json_ok  json.loads of that text succeeds
\*   value    the kind of the loaded value
\*   choices  chunk['choices']: "absent", or a list with "one" object
\*   delta    chunk['choices'][0]['delta']: "absent", "null" or "dict"
\*   content  delta['content']: "absent", "null", "number" or "text"
\*   text     the content, when it is text
PlainFrame ==
    [empty |-> FALSE, utf8 |-> TRUE, done |-> FALSE, json_ok |-> TRUE,
     value |-> "dict", choices |-> "one", delta |-> "dict",
     content |-> "absent", text |-> ""]

FrameInfo(f) ==
    CASE f = EmptyLine        -> [PlainFrame EXCEPT !.empty = TRUE]
      [] f = FrameHel         -> [PlainFrame EXCEPT !.content = "text",
                                                    !.text = "Hel"]
      [] f = FrameLo          -> [PlainFrame EXCEPT !.content = "text",
                                                    !.text = "lo"]
      [] f = FrameBare        -> [PlainFrame EXCEPT !.content = "text",
                                                    !.text = "!"]
      [] f = FrameDone        -> [PlainFrame EXCEPT !.done = TRUE]
      [] f = FrameEvent       -> [PlainFrame EXCEPT !.json_ok = FALSE]
      [] f = FrameNotJson     -> [PlainFrame EXCEPT !.json_ok = FALSE]
      [] f = FrameNoChoices   -> [PlainFrame EXCEPT !.choices = "absent"]
      [] f = FrameEmptyDelta  -> PlainFrame
      [] f = FrameNullContent -> [PlainFrame EXCEPT !.content = "null"]
      [] f = FrameNumber      -> [PlainFrame EXCEPT !.value = "number"]
      [] f = FrameNullDelta   -> [PlainFrame EXCEPT !.delta = "null"]
      [] f = FrameNumContent  -> [PlainFrame EXCEPT !.content = "number"]
      [] f = FrameBadBytes    -> [PlainFrame EXCEPT !.utf8 = FALSE]
      [] f = FrameEmptyText   -> [PlainFrame EXCEPT !.content = "text"]

Continue == [kind |-> "continue", text |-> "", error |-> ""]
Break == [kind |-> "break", text |-> "", error |-> ""]
Chunk(text) == [kind |-> "chunk", text |-> text, error |-> ""]
Raise(error) == [kind |-> "raise", text |-> "", error |-> error]

\* the loop body without the test for the [DONE] marker
LineOutcomeMutIgnoresDone(info) ==
    IF info.empty THEN Continue
    ELSE IF ~info.utf8 THEN Raise("UnicodeDecodeError")
    ELSE IF info.done \/ ~info.json_ok THEN Continue
    ELSE IF info.value = "number" THEN Raise("TypeError")
    ELSE IF info.choices = "absent" THEN Continue
    ELSE IF info.delta = "null" THEN Raise("AttributeError")
    ELSE IF info.delta = "absent" \/ info.content \in {"absent", "null"}
    THEN Continue
    ELSE IF info.content = "text" /\ info.text = "" THEN Continue
    ELSE IF info.content = "number" THEN Raise("TypeError")
    ELSE Chunk(info.text)

\* one pass of the body of `for line in response.iter_lines()`; only
\* json.JSONDecodeError is caught, and the decoding of the line is outside
\* the try; `if content` is false for an empty text
LineOutcome(info) ==
    IF info.empty THEN Continue
    ELSE IF ~info.utf8 THEN Raise("UnicodeDecodeError")
    ELSE IF info.done THEN Break
    ELSE IF ~info.json_ok THEN Continue
    ELSE IF info.value = "number" THEN Raise("TypeError")
    ELSE IF info.choices = "absent" THEN Continue
    ELSE IF info.delta = "null" THEN Raise("AttributeError")
    ELSE IF info.delta = "absent" \/ info.content \in {"absent", "null"}
    THEN Continue
    ELSE IF info.content = "text" /\ info.text = "" THEN Continue
    ELSE IF info.content = "number" THEN Raise("TypeError")
    ELSE Chunk(info.text)

\* the response bodies: up to MaxFrames lines, in any order
Bodies ==
    UNION {[1..n -> Frames] : n \in 0..MaxFrames}

FramesInit ==
    /\ WorkerIdle
    /\ ParseIdle
    /\ WindowIdle
    /\ LoadIdle
    /\ ProbeIdle
    /\ body \in Bodies
    /\ line_idx = 1
    /\ stream_content = <<>>
    /\ on_chunk_calls = <<>>
    /\ stream_error = ""
    /\ stream_pc = "lines"

\* the outcome of the pass over the line the loop takes next
ThisLine == LineOutcome(FrameInfo(body[line_idx]))

\* a line that is skipped: `continue`, or a frame without content
FrameSkipped ==
    /\ stream_pc = "lines"
    /\ line_idx <= Len(body)
    /\ ThisLine.kind = "continue"
    /\ line_idx' = line_idx + 1
    /\ UNCHANGED <<body, stream_content, on_chunk_calls, stream_error,
                   stream_pc, outsideFrames>>

\* `full_content += content` and `on_chunk(content)`
FrameDelivered ==
    /\ stream_pc = "lines"
    /\ line_idx <= Len(body)
    /\ ThisLine.kind = "chunk"
    /\ stream_content' = Append(stream_content, ThisLine.text)
    /\ on_chunk_calls' = Append(on_chunk_calls, ThisLine.text)
    /\ line_idx' = line_idx + 1
    /\ UNCHANGED <<body, stream_error, stream_pc, outsideFrames>>

\* the [DONE] marker: `break`
FrameEndsStream ==
    /\ stream_pc = "lines"
    /\ line_idx <= Len(body)
    /\ ThisLine.kind = "break"
    /\ stream_pc' = "return"
    /\ UNCHANGED <<body, line_idx, stream_content, on_chunk_calls,
                   stream_error, outsideFrames>>

\* an exception other than json.JSONDecodeError leaves chat_stream()
FrameRaises ==
    /\ stream_pc = "lines"
    /\ line_idx <= Len(body)
    /\ ThisLine.kind = "raise"
    /\ stream_error' = ThisLine.error
    /\ stream_pc' = "raised"
    /\ UNCHANGED <<body, line_idx, stream_content, on_chunk_calls,
                   outsideFrames>>

\* iter_lines() is exhausted
FramesExhausted ==
    /\ stream_pc = "lines"
    /\ line_idx > Len(body)
    /\ stream_pc' = "return"
    /\ UNCHANGED <<body, line_idx, stream_content, on_chunk_calls,
                   stream_error, outsideFrames>>

\* `return LLMResponse(content=full_content, tool_calls=tool_calls)`
FramesReturn ==
    /\ stream_pc = "return"
    /\ stream_pc' = "returned"
    /\ UNCHANGED <<body, line_idx, stream_content, on_chunk_calls,
                   stream_error, outsideFrames>>

FramesNext ==
    \/ FrameSkipped
    \/ FrameDelivered
    \/ FrameEndsStream
    \/ FrameRaises
    \/ FramesExhausted
    \/ FramesReturn

StreamSpec == FramesInit /\ [][FramesNext]_vars

-----------------------------------------------------------------------------
(* MCPManager.load_mcps: the descriptor list of the config file is taken   *)
(* one descriptor at a time.  A descriptor is its server name and its      *)
(* path; a path is the source file it stands for.                          *)

\* descriptors in the config file
MaxSources == 3

ServerNames == {"Quota", "Jobs"}

\* "" is a descriptor without path, "5" one whose path is the number 5
Paths ==
    {"", "5", "missing.py", "a.py", "b.py", "boom.py", "exit.py",
     "partial.py"}

\* what _load_mcp_server finds under a path:
\*   truthy      `not rel_path` is false
\*   text        the path is a str (os.path.join accepts it)
\*   exists      os.path.exists(full_path)
\*   exec        spec.loader.exec_module(module): "ok", "raises" (an
\*               Exception) or "exits" (SystemExit, no Exception)
\*   defines     the tools the extraction registers, in order
\*   inspect_ok  the extraction ends without an exception; when it does
\*               not, the exception comes after `defines` were registered
PlainSource ==
    [truthy |-> TRUE, text |-> TRUE, exists |-> TRUE, exec |-> "ok",
     defines |-> <<>>, inspect_ok |-> TRUE]

PathInfo(path) ==
    CASE path = ""           -> [PlainSource EXCEPT !.truthy = FALSE,
                                                    !.exists = FALSE]
      [] path = "5"          -> [PlainSource EXCEPT !.text = FALSE,
                                                    !.exists = FALSE]
      [] path = "missing.py" -> [PlainSource EXCEPT !.exists = FALSE]
      [] path = "a.py"       ->
            [PlainSource EXCEPT !.defines =
                <<[name |-> "get_quota", function |-> "returns_text"]>>]
      [] path = "b.py"       ->
            [PlainSource EXCEPT !.defines =
                <<[name |-> "get_quota", function |-> "raises"],
                  [name |-> "jobs", function |-> "returns_text"]>>]
      [] path = "boom.py"    -> [PlainSource EXCEPT !.exec = "raises"]
      [] path = "exit.py"    -> [PlainSource EXCEPT !.exec = "exits"]
      [] path = "partial.py" ->
            [PlainSource EXCEPT !.defines =
                <<[name |-> "get_quota", function |-> "raises"]>>,
                                !.inspect_ok = FALSE]

Descriptors == [name : ServerNames, path : Paths]

\* the descriptor lists: up to MaxSources descriptors, in any order
Configs ==
    UNION {[1..n -> Descriptors] : n \in 0..MaxSources}

\* _register_tool / _register_function_as_tool for each tool of a source:
\* `self.tools[name] = tool`, a later one replacing an earlier one
RECURSIVE Register(_, _, _)
Register(registry, server_name, defs) ==
    IF defs = <<>> THEN registry
    ELSE Register(
            (Head(defs).name :> [server_name |-> server_name,
                                 function |-> Head(defs).function])
                @@ registry,
            server_name, Tail(defs))

\* server.tools: the names of the tools registered for the server
ToolNames(defs) == [i \in 1..Len(defs) |-> defs[i].name]

\* one call of _load_mcp_server: how it ends ("loaded", "skipped",
\* "raises": an Exception leaves it, "exits": SystemExit leaves it) and the
\* registry and the servers it leaves behind
LoadMcpServer(mcp_config, registry, srv) ==
    LET info == PathInfo(mcp_config.path)
        same == [tools |-> registry, servers |-> srv]
    IN  IF ~info.truthy THEN [outcome |-> "skipped"] @@ same
        ELSE IF ~info.text THEN [outcome |-> "raises"] @@ same
        ELSE IF ~info.exists THEN [outcome |-> "skipped"] @@ same
        ELSE IF info.exec = "raises" THEN [outcome |-> "skipped"] @@ same
        ELSE IF info.exec = "exits" THEN [outcome |-> "exits"] @@ same
        ELSE IF ~info.inspect_ok
        THEN [outcome |-> "skipped",
              tools |-> Register(registry, mcp_config.name, info.defines),
              servers |-> srv]
        ELSE [outcome |-> "loaded",
              tools |-> Register(registry, mcp_config.name, info.defines),
              servers |-> (mcp_config.name :> ToolNames(info.defines))
                              @@ srv]

LoadInit ==
    /\ model = "instructed"
    /\ RunInit
    /\ ParseIdle
    /\ WindowIdle
    /\ FramesIdle
    /\ ProbeIdle
    /\ tools = <<>>
    /\ config \in Configs
    /\ load_idx = 0
    /\ servers = <<>>
    /\ load_pc = "loop"

\* the call of _load_mcp_server for the descriptor the loop takes next
ThisLoad == LoadMcpServer(config[load_idx + 1], tools, servers)

\* `self._load_mcp_server(mcp_config)` returns: the source was loaded, or
\* it was skipped with a warning
LoadServer ==
    /\ load_pc = "loop"
    /\ load_idx < Len(config)
    /\ ThisLoad.outcome \in {"loaded", "skipped"}
    /\ tools' = ThisLoad.tools
    /\ servers' = ThisLoad.servers
    /\ load_idx' = load_idx + 1
    /\ UNCHANGED <<config, load_pc, outsideLoad>>

\* an Exception leaves _load_mcp_server: `except Exception` of load_mcps
\* prints the warning, and load_mcps returns
LoadAbandoned ==
    /\ load_pc = "loop"
    /\ load_idx < Len(config)
    /\ ThisLoad.outcome = "raises"
    /\ load_pc' = "returned"
    /\ UNCHANGED <<config, load_idx, servers, tools, outsideLoad>>

\* SystemExit is no Exception: it leaves _load_mcp_server and load_mcps
LoadExits ==
    /\ load_pc = "loop"
    /\ load_idx < Len(config)
    /\ ThisLoad.outcome = "exits"
    /\ load_pc' = "raised"
    /\ UNCHANGED <<config, load_idx, servers, tools, outsideLoad>>

\* the for loop has taken every descriptor
LoadReturns ==
    /\ load_pc = "loop"
    /\ load_idx = Len(config)
    /\ load_pc' = "returned"
    /\ UNCHANGED <<config, load_idx, servers, tools, outsideLoad>>

LoadNext ==
    \/ LoadServer
    \/ LoadAbandoned
    \/ LoadExits
    \/ LoadReturns

LoadSpec == LoadInit /\ [][LoadNext]_vars

-----------------------------------------------------------------------------
(* LLMClient.check_connection and ChatbotWindow.update_connection_status:  *)
(* the probes of the models-listing endpoint one session makes.  A probe   *)
(* is what requests.get does: it returns a response with a status code,    *)
(* or it raises.                                                           *)

\* probes one session makes
MaxProbes == 2

Statuses == {"200", "204", "401", "404", "500"}

ExceptionTypes ==
    {"ConnectionError", "SSLError", "ConnectTimeout", "ReadTimeout",
     "TooManyRedirects", "InvalidURL"}

\* the classes an `except` clause of check_connection can name that an
\* exception of the type is an instance of: ConnectTimeout derives from
\* both ConnectionError and Timeout
Ancestors(e) ==
    CASE e = "ConnectionError"  -> {"ConnectionError", "Exception"}
      [] e = "SSLError"         -> {"ConnectionError", "Exception"}
      [] e = "ConnectTimeout"   -> {"ConnectionError", "Timeout", "Exception"}
      [] e = "ReadTimeout"      -> {"Timeout", "Exception"}
      [] e = "TooManyRedirects" -> {"Exception"}
      [] e = "InvalidURL"       -> {"Exception"}

\* str(e)[:30]
First30(e) ==
    CASE e = "TooManyRedirects" -> "Exceeded 30 redirects."
      [] e = "InvalidURL"       -> "Invalid URL 'https:///direct/v"
      [] OTHER                  -> e

GetOutcomes ==
    [kind : {"status"}, status : Statuses, error : {""}]
        \cup [kind : {"raises"}, status : {""}, error : ExceptionTypes]

\* `if response.status_code == 200`
StatusOk(status) == status = "200"

\* the pair check_connection returns: the except clauses are tried in
\* the order ConnectionError, Timeout, Exception
check_connection(outcome) ==
    IF outcome.kind = "status"
    THEN IF StatusOk(outcome.status)
         THEN [connected |-> TRUE, msg |-> "Connected"]
         ELSE [connected |-> FALSE, msg |-> "Error: " \o outcome.status]
    ELSE IF "ConnectionError" \in Ancestors(outcome.error)
    THEN [connected |-> FALSE, msg |-> "Connection failed"]
    ELSE IF "Timeout" \in Ancestors(outcome.error)
    THEN [connected |-> FALSE, msg |-> "Timeout"]
    ELSE [connected |-> FALSE, msg |-> "Error: " \o First30(outcome.error)]

ProbeInit ==
    /\ WorkerIdle
    /\ ParseIdle
    /\ WindowIdle
    /\ LoadIdle
    /\ FramesIdle
    /\ probe_outcome = NoOutcome
    /\ probe_result = NoResult
    /\ probe_pc = "idle"
    /\ probes = 0
    /\ status_message = "Initializing..."

\* the connection timer fires: update_connection_status() calls
\* check_connection(), which calls requests.get
ProbeStart ==
    /\ probe_pc = "idle"
    /\ probes < MaxProbes
    /\ probe_outcome' \in GetOutcomes
    /\ probes' = probes + 1
    /\ probe_pc' = "get"
    /\ UNCHANGED <<probe_result, status_message, outsideProbe>>

\* requests.get returns a response: the test of its status code
ProbeAnswered ==
    /\ probe_pc = "get"
    /\ probe_outcome.kind = "status"
    /\ probe_result' = check_connection(probe_outcome)
    /\ probe_pc' = "returned"
    /\ UNCHANGED <<probe_outcome, probes, status_message, outsideProbe>>

\* requests.get raises: the except clause that takes the exception
ProbeFailed ==
    /\ probe_pc = "get"
    /\ probe_outcome.kind = "raises"
    /\ probe_result' = check_connection(probe_outcome)
    /\ probe_pc' = "returned"
    /\ UNCHANGED <<probe_outcome, probes, status_message, outsideProbe>>

\* update_connection_status() shows the pair in the status bar
ShowStatus ==
    /\ probe_pc = "returned"
    /\ status_message' =
          IF probe_result.connected THEN "Connected to " \o model
          ELSE "Disconnected: " \o probe_result.msg
    /\ probe_pc' = "idle"
    /\ UNCHANGED <<probe_outcome, probe_result, probes, outsideProbe>>

ProbeNext ==
    \/ ProbeStart
    \/ ProbeAnswered
    \/ ProbeFailed
    \/ ShowStatus

ProbeSpec == ProbeInit /\ [][ProbeNext]_vars

-----------------------------------------------------------------------------
(* Properties of one user request (one ChatWorker.run)                     *)

Has(kind) == OfKind(emitted, kind) # <<>>

\* the finished signals of the request carry exactly `text`, once
FinishedWith(text) == OfKind(emitted, "finished") = <<Signal("finished", "", text)>>

\* C1: one request performs at most MAX_TOOL_ITERATIONS turns, and when
\* every turn's content yields a tool call (then the last one does) and
\* there was neither a cancellation nor a failed request, it performs
\* exactly MAX_TOOL_ITERATIONS turns.
C1_ExactlyFiveTurns ==
    /\ streamCalls <= MAX_TOOL_ITERATIONS
    /\ (pc = "done" /\ ~is_cancelled /\ ~failed /\ response.tool_calls # <<>>)
          => streamCalls = MAX_TOOL_ITERATIONS

\* C2: once the worker has read the flag as set, no step emits a chunk,
\* toolCallStarted, toolResult or finished signal, and the run ends without
\* a finished signal.
C2_SilentOnceObserved ==
    /\ [][observed => Progress(emitted') = Progress(emitted)]_vars
    /\ [](observed /\ pc = "done" => ~Has("finished"))

C2_Witness ==
    /\ pc = "done"
    /\ observed
    /\ Has("toolResult")
    /\ ~Has("finished")

\* C3: once cancel() has set the flag after the toolResult of call k and
\* before the check that precedes call k+1, no step emits a signal, runs a
\* handler, requests a turn or extends the history.
C3_CancelBetweenCalls ==
    [][cancelBetween > 0 =>
          /\ emitted' = emitted
          /\ handlerCalls' = handlerCalls
          /\ streamCalls' = streamCalls
          /\ iterations' = iterations
          /\ messages' = messages]_vars

C3_Witness ==
    /\ pc = "done"
    /\ cancelBetween = 1
    /\ Len(response.tool_calls) >= 2
    /\ Kinds(emitted)[Len(emitted)] = "toolResult"
    /\ Len(OfKind(emitted, "toolResult")) = 1

\* the worker is past the check of a turn whose content yielded no call
ZeroCallTurnDone ==
    /\ completed
    /\ response.tool_calls = <<>>

\* C4: a turn whose content yields no tool call, with no cancellation
\* observed, is the last one: the worker leaves the loop there, requests
\* no further turn, and emits finished once, carrying that turn's content.
C4_ZeroCallsEndTheLoop ==
    /\ [][(pc = "after_content" /\ ~is_cancelled /\ response.tool_calls = <<>>
             /\ pc' # pc) => pc' = "final"]_vars
    /\ [][ZeroCallTurnDone =>
             /\ ZeroCallTurnDone'
             /\ pc' \in {"final", "final_emit", "done"}
             /\ streamCalls' = streamCalls
             /\ iterations' = iterations]_vars
    /\ [](ZeroCallTurnDone /\ pc = "done" /\ ~observed
             => FinishedWith(response.content) /\ ~Has("error"))

C4_Witness ==
    /\ pc = "done"
    /\ ZeroCallTurnDone
    /\ ~observed
    /\ iterations = 1
    /\ streamCalls = 1
    /\ response.content = <<Prose>>
    /\ FinishedWith(<<Prose>>)

\* C5: when the 5th turn's content still yields tool calls and no
\* cancellation is observed, the request ends with finished carrying the
\* 5th turn's content, and with no error signal.
C5_CapEndsInFinished ==
    (/\ pc = "done"
     /\ iterations = MAX_TOOL_ITERATIONS
     /\ completed
     /\ response.tool_calls # <<>>
     /\ ~observed)
        => FinishedWith(response.content) /\ ~Has("error")

\* C6: for a streamed turn that passed the check after its content, the
\* concatenation of the chunk payloads emitted for the turn, in emission
\* order, is the content of the turn's response.
C6_ChunksConcatToContent ==
    (turnPath = "streamed" /\ completed)
        => Concat(TurnChunks) = response.content

C6_Witness ==
    /\ turnPath = "streamed"
    /\ completed
    /\ Len(TurnChunks) = 2
    /\ TurnChunks[1] # TurnChunks[2]

\* C7: in a turn whose streaming request failed and whose retry returned,
\* the chunks emitted for the turn are exactly the one chunk holding the
\* retry's content (none when that content is empty).
C7_RetryIsTheOnlyChunk ==
    (turnPath = "retried" /\ completed)
        => /\ retries = 1
           /\ TurnChunks = IF response.content = <<>> THEN <<>>
                           ELSE <<response.content>>

\* C8: no turn calls chat() more than once, and when chat_stream() and
\* chat() both failed in a turn the worker only reports it: no further
\* turn, no tool dispatch, exactly one error signal and no finished signal.
C8_BothFailAborts ==
    /\ retries <= 1
    /\ turnPath = "failed" =>
          /\ pc \in {"except", "done"}
          /\ streamCalls = iterations
          /\ ~Has("toolCallStarted") /\ ~Has("toolResult")
          /\ ~Has("finished")
          /\ pc = "done" => Len(OfKind(emitted, "error")) = 1

C8_Witness ==
    /\ turnPath = "failed"
    /\ pc = "done"
    /\ iterations = 2
    /\ Kinds(emitted) = <<"error">>

\* the tool loop is working on the calls of `response`
InToolLoop ==
    pc \in {"tool_check", "tool_start", "tool_exec", "tool_result",
            "tools_done"}

\* the text execute_tool is to return for an unregistered name
UnknownToolText(name) == "{\"error\": \"Unknown tool: " \o name \o "\"}"

\* call i of the current turn was processed with result text `text`: its
\* toolResult signal and its labelled block say so
ProcessedWith(i, text) ==
    LET name == response.tool_calls[i].name IN
    /\ OfKind(emitted, "toolResult")[i] = Signal("toolResult", name, <<text>>)
    /\ tool_results[i] = <<"Tool: " \o name, "Result:", text>>

\* the results message of the turn was appended and holds every block
ResultsFedBack ==
    /\ messages[Len(messages)].role = "user"
    /\ messages[Len(messages)].content = ResultsMessage(tool_results)

\* C9: for a name that is not registered, execute_tool returns the
\* 'Unknown tool: <name>' payload, raises nothing and invokes no handler;
\* the worker emits toolResult with that text, goes on, and feeds the text
\* back in the results message.
C9_UnknownToolIsAResult ==
    /\ \A i \in 1..Len(handlerCalls) : handlerCalls[i] \in DOMAIN tools
    /\ error_text # "execute_tool raised"
    /\ InToolLoop =>
          \A i \in 1..Len(tool_results) :
             response.tool_calls[i].name \notin DOMAIN tools
                => ProcessedWith(i,
                      UnknownToolText(response.tool_calls[i].name))
    /\ (pc = "loop" /\ iterations > 0 /\ ~cancelled) => ResultsFedBack

C9_Witness ==
    /\ pc = "loop"
    /\ ~cancelled
    /\ Len(tool_results) = 2
    /\ response.tool_calls[1].name = "nope"
    /\ response.tool_calls[2].name = "get_quota"
    /\ ProcessedWith(1, "{\"error\": \"Unknown tool: nope\"}")
    /\ ResultsFedBack

\* the text execute_tool is to return when the handler raises
HandlerErrorText == "{\"error\": \"Tool execution error: disk offline\"}"

Raising(name) == name \in DOMAIN tools /\ tools[name].function = "raises"

\* C10: when the handler of a registered tool raises, execute_tool returns
\* the 'Tool execution error: <message>' payload; the worker emits
\* toolResult with it, goes on to the check of the next call, feeds the
\* payload back in the results message, and no error signal comes of it.
C10_HandlerErrorIsAResult ==
    /\ [][(pc = "tool_exec" /\ pc' # pc) => pc' = "tool_result"]_vars
    /\ [][(pc = "tool_result" /\ pc' # pc) => pc' = "tool_check"]_vars
    /\ [](error_text # "execute_tool raised")
    /\ [](InToolLoop =>
            \A i \in 1..Len(tool_results) :
               Raising(response.tool_calls[i].name)
                  => ProcessedWith(i, HandlerErrorText))
    /\ []((pc = "loop" /\ iterations > 0 /\ ~cancelled) => ResultsFedBack)

C10_Witness ==
    /\ pc = "loop"
    /\ ~cancelled
    /\ Len(tool_results) = 2
    /\ Raising(response.tool_calls[1].name)
    /\ response.tool_calls[2].name = "nope"
    /\ handlerCalls[Len(handlerCalls)] = "get_quota"
    /\ ProcessedWith(1, HandlerErrorText)
    /\ ProcessedWith(2, "{\"error\": \"Unknown tool: nope\"}")
    /\ ResultsFedBack

-----------------------------------------------------------------------------
(* Properties of the worker's state                                        *)

\* C21: the cancellation flag is single-shot (once set, no step clears it),
\* and the iteration count stays within 0..MAX_TOOL_ITERATIONS and changes
\* only when a turn is started, then by exactly one
C21_FlagSingleShotCountMonotone ==
    /\ [](iterations \in 0..MAX_TOOL_ITERATIONS)
    /\ [][/\ is_cancelled => is_cancelled'
          /\ iterations' \in {iterations, iterations + 1}
          /\ (iterations' = iterations + 1)
                <=> (pc = "loop" /\ pc' = "stream_post")]_vars

C21_Witness ==
    /\ pc = "done"
    /\ iterations = MAX_TOOL_ITERATIONS
    /\ is_cancelled
    /\ streamCalls = MAX_TOOL_ITERATIONS

\* sequence a is the front of sequence b
IsPrefix(a, b) ==
    /\ Len(a) <= Len(b)
    /\ SubSeq(b, 1, Len(a)) = a

\* C22: the worker's history is append-only: at every step the previous
\* history is a prefix of the new one, and the messages the worker was
\* constructed with stay at the front
C22_HistoryAppendOnly ==
    /\ [][IsPrefix(messages, messages')]_vars
    /\ [](IsPrefix(InitialMessages, messages))

C22_Witness ==
    /\ pc = "done"
    /\ Len(messages) >= Len(InitialMessages) + 4
    /\ messages[Len(InitialMessages) + 1].role = "assistant"
    /\ messages[Len(InitialMessages) + 2].role = "user"

\* C23: when cancel() has completed before the check at the start of a
\* turn, the worker requests no completion for that turn (neither streamed
\* nor as a retry), counts no turn, emits no signal from there on, and goes
\* to the end of run() without the finished signal
C23_CancelledBeforeTurnStart ==
    [][(is_cancelled /\ pc \in {"loop", "final", "done"}) =>
          /\ pc' \in {"loop", "final", "done"}
          /\ emitted' = emitted
          /\ streamCalls' = streamCalls
          /\ retries' = retries
          /\ iterations' = iterations]_vars

\* the first turn ran its tool and fed the result back, and the check at
\* the start of the second turn then read the flag as set
C23_Witness ==
    /\ pc = "done"
    /\ observed
    /\ iterations = 1
    /\ streamCalls = 1
    /\ Len(messages) = Len(InitialMessages) + 2
    /\ ~Has("finished")
    /\ ~Has("error")

\* the terminal signals among those emitted
Terminals(log) == SelectSeq(log, LAMBDA e : e.kind \in {"finished", "error"})

\* C25: one request emits at most one terminal signal (finished or error,
\* never both, never twice); when one was emitted it is the last signal and
\* run() has ended, and no step emits anything after it
C25_AtMostOneTerminal ==
    /\ [](/\ Len(Terminals(emitted)) <= 1
          /\ Terminals(emitted) # <<>> =>
                /\ pc = "done"
                /\ emitted[Len(emitted)].kind \in {"finished", "error"})
    /\ [][pc = "done" => emitted' = emitted /\ pc' = "done"]_vars

\* a request that failed in its second turn, after chunks of that turn
\* were delivered
C25_Witness ==
    /\ pc = "done"
    /\ Has("error")
    /\ Has("chunk")
    /\ ~Has("finished")
    /\ iterations = 2
    /\ Len(messages) = Len(InitialMessages) + 2

\* C24: every request reaches the end of run(), and when it has, it has
\* emitted finished, or emitted error, or observed the cancellation (never
\* finished together with error)
C24_EveryRequestEnds ==
    /\ <>(pc = "done")
    /\ [](pc = "done" =>
             /\ Has("finished") \/ Has("error") \/ observed
             /\ ~(Has("finished") /\ Has("error")))

\* a request that went through all turns and then ended with finished
C24_Witness ==
    /\ pc = "done"
    /\ iterations = MAX_TOOL_ITERATIONS
    /\ Has("finished")
    /\ ~observed

-----------------------------------------------------------------------------
(* Properties of a request after cancel() has completed                    *)

\* C26: after cancel() has completed the worker emits no chunk,
\* toolCallStarted, toolResult or finished signal at all, also not for a
\* chunk whose flag check, or a tool whose execution, was under way when
\* cancel() was called
C26_NothingAfterCancel ==
    [][is_cancelled => Progress(emitted') = Progress(emitted)]_vars

\* C27: after cancel() has completed the worker starts no non-streaming
\* retry: a streaming request that fails on a cancelled request is not
\* followed by a call of chat()
C27_NoRetryAfterCancel ==
    [][is_cancelled => retries' = retries]_vars

\* C28: after cancel() has completed the worker emits no error signal: a
\* failure on a cancelled request ends the request silently
C28_NoErrorAfterCancel ==
    [][is_cancelled =>
          OfKind(emitted', "error") = OfKind(emitted, "error")]_vars

\* C29: the worker never changes the list it was given: at every moment of
\* a run, cancelled and failed ones included, the caller's list holds the
\* messages it held when the worker was constructed, in the same order
C29_CallerListUntouched ==
    /\ [](caller_messages = InitialMessages)
    /\ [][caller_messages' = caller_messages]_vars

\* a cancelled request that failed after the worker's own list had grown
C29_Witness ==
    /\ pc = "done"
    /\ is_cancelled
    /\ Has("error")
    /\ Len(messages) = Len(InitialMessages) + 2
    /\ caller_messages # messages

-----------------------------------------------------------------------------
(* Properties of the tool loop of one turn                                 *)

\* the tool signals of the current turn, in the order they were emitted
ToolSignals ==
    SelectSeq(emitted, LAMBDA e : e.kind \in {"toolCallStarted", "toolResult"})

\* toolCallStarted and toolResult of the first k calls of the turn, in
\* extraction order, each result being what execute_tool gave for the call
ExpectedSignals(k) ==
    [j \in 1..(2 * k) |->
        LET tool_call == response.tool_calls[(j + 1) \div 2] IN
        IF j % 2 = 1
        THEN Signal("toolCallStarted", tool_call.name, <<>>)
        ELSE Signal("toolResult", tool_call.name,
                    <<execute_tool(tool_call.name).text>>)]

\* every toolCallStarted is directly followed by the toolResult of its call
Paired(s) ==
    /\ Len(s) % 2 = 0
    /\ \A j \in 1..Len(s) :
          IF j % 2 = 1
          THEN s[j].kind = "toolCallStarted"
          ELSE s[j].kind = "toolResult" /\ s[j].name = s[j - 1].name

C16_SignalsInOrder ==
    /\ InToolLoop =>
          LET k == Len(tool_results) IN
          /\ k <= Len(response.tool_calls)
          /\ ToolSignals =
                IF pc \in {"tool_exec", "tool_result"}
                THEN Append(ExpectedSignals(k),
                         Signal("toolCallStarted",
                                response.tool_calls[k + 1].name, <<>>))
                ELSE ExpectedSignals(k)
          /\ (pc = "tools_done" /\ ~cancelled) =>
                k = Len(response.tool_calls)
    /\ pc \notin {"tool_exec", "tool_result"} => Paired(ToolSignals)

\* a handler runs only between the toolCallStarted of its call and the
\* toolResult of that call
C16_HandlerBetweenSignals ==
    handlerCalls' # handlerCalls =>
        /\ pc = "tool_exec" /\ pc' = "tool_result"
        /\ emitted' = emitted
        /\ ToolSignals # <<>>
        /\ LET last == ToolSignals[Len(ToolSignals)] IN
           /\ last.kind = "toolCallStarted"
           /\ handlerCalls' = Append(handlerCalls, last.name)

\* C16: within a turn the calls are executed one at a time in extraction
\* order: the tool signals of the turn are always toolCallStarted(name_1),
\* toolResult(name_1, result_1), toolCallStarted(name_2), ... for the calls
\* of the response in order, a handler runs only after the toolCallStarted of
\* its call and before its toolResult, and no toolCallStarted is left without
\* the toolResult of the same call
C16_CallsOneAtATimeInOrder ==
    [](C16_SignalsInOrder) /\ [][C16_HandlerBetweenSignals]_vars

C16_Witness ==
    /\ pc = "tools_done"
    /\ ~cancelled
    /\ Len(response.tool_calls) = 2
    /\ Len(ToolSignals) = 4
    /\ handlerCalls # <<>>

\* the turn obtained its content, extracted tool calls from it, has left the
\* tool loop and no cancellation was requested
ToolTurnOver ==
    /\ pc \in {"loop", "final", "final_emit", "done"}
    /\ completed
    /\ response.tool_calls # <<>>
    /\ ~is_cancelled

\* the labelled blocks of all calls of the response, in extraction order
BlocksOfResponse ==
    [i \in 1..Len(response.tool_calls) |->
        ResultBlock(response.tool_calls[i].name,
                    execute_tool(response.tool_calls[i].name).text)]

\* C17: a turn that yields tool calls and is not cancelled has appended
\* exactly two messages to the history: the assistant message with the raw
\* content of the turn, then one user message with one labelled block per
\* call in extraction order followed by the instruction to interpret
C17_TwoMessagesPerToolTurn ==
    ToolTurnOver =>
        LET n == Len(messages) IN
        /\ n = Len(InitialMessages) + 2 * iterations
        /\ messages[n - 1] =
              [role |-> "assistant", content |-> response.content]
        /\ messages[n] =
              [role |-> "user", content |-> ResultsMessage(BlocksOfResponse)]

\* the tool-results messages the worker has appended to its history
ResultsMessages ==
    SelectSeq(SubSeq(messages, Len(InitialMessages) + 1, Len(messages)),
              LAMBDA m : m.role = "user")

\* the last tool-results message was appended after the last completion
\* request was made: no request has carried it
Unsent ==
    /\ ResultsMessages # <<>>
    /\ Len(ResultsMessages) >= streamCalls

\* the last turn of the request ran tools, and no turn followed it
EndedOnToolTurn ==
    /\ completed
    /\ response.tool_calls # <<>>
    /\ tool_results # <<>>

\* the request ended because chat_stream() and then chat() raised
TransportErrorEnded == Has("error") /\ turnPath = "failed"

C37_ExecuteLeavesRegistry ==
    /\ [][pc = "tool_exec" => (tools' = tools /\ servers' = servers)]_vars
    /\ [](tools \in Registries /\ servers = <<>>)
    /\ [][tools' = tools]_vars

\* the handler of get_quota has raised and an unknown name was executed
\* after it: the registry still holds get_quota with that handler
C37_Witness ==
    /\ pc = "tool_result"
    /\ handlerCalls = <<"get_quota">>
    /\ result = ErrorPayload("Unknown tool: nope")
    /\ Len(tool_results) = 1
    /\ DOMAIN tools = {"get_quota"}
    /\ tools["get_quota"].function = "raises"

-----------------------------------------------------------------------------
(* Properties of parse_tool_calls                                          *)

\* piece k of the text is a candidate of method m that loads as JSON and
\* names a tool
ValidOcc(m, k) ==
    LET info == PieceInfo(parse_content[k]) IN
    /\ MethodMatches(m, info)
    /\ JsonOk(m, info)
    /\ Truthy(info)

NameAt(k) ==
    <<PieceInfo(parse_content[k]).tool, PieceInfo(parse_content[k]).tool_type>>

NameOf(call) == <<call.name, call.name_type>>

\* some candidate of methods 1 to 3 yields a call
InlineFound ==
    \E m \in 1..3 : \E k \in 1..Len(parse_content) : ValidOcc(m, k)

\* the occurrences of tool names, as <<method, position>>, in the methods
\* that are run
Occurrences ==
    {a \in (1..4) \X (1..Len(parse_content)) :
        /\ ValidOcc(a[1], a[2])
        /\ a[1] = 4 => ~InlineFound}

\* method first, position second
Before(a, b) == a[1] < b[1] \/ (a[1] = b[1] /\ a[2] < b[2])

FirstOccurrence(name) ==
    CHOOSE a \in Occurrences :
        /\ NameAt(a[2]) = name
        /\ \A b \in Occurrences : NameAt(b[2]) = name => (a = b \/ Before(a, b))

\* C11: the returned list holds no name twice; it holds exactly the names
\* that occur, each with the call of its first occurrence (by method, then
\* by position), and lists them in the order of those first occurrences.
C11_FirstOccurrenceWins ==
    parse_pc = "returned" =>
        /\ \A i, j \in 1..Len(tool_calls) :
              i # j => NameOf(tool_calls[i]) # NameOf(tool_calls[j])
        /\ {NameOf(tool_calls[i]) : i \in 1..Len(tool_calls)}
              = {NameAt(a[2]) : a \in Occurrences}
        /\ \A i \in 1..Len(tool_calls) :
              tool_calls[i] = MakeToolCall(PieceInfo(
                 parse_content[FirstOccurrence(NameOf(tool_calls[i]))[2]]))
        /\ \A i, j \in 1..Len(tool_calls) :
              i < j => Before(FirstOccurrence(NameOf(tool_calls[i])),
                              FirstOccurrence(NameOf(tool_calls[j])))

\* the same name inline and, later in the text, fenced: one call, the
\* fenced one, listed before the inline call of another name
C11_Witness ==
    /\ parse_pc = "returned"
    /\ parse_content = <<RawNope, RawQuota, FencedQuota>>
    /\ tool_calls =
          <<[name |-> "get_quota", name_type |-> "str",
             arguments |-> "{\"user\": \"me\"}"],
            [name |-> "nope", name_type |-> "str", arguments |-> "{}"]>>

\* the argument texts that are JSON objects
MappingTexts == {"{}", "{\"user\": \"me\"}", "{\"user\": \"you\"}"}

\* C12: at every point of the extraction each call of the list has a
\* mapping as its arguments, and a first occurrence whose arguments value
\* is absent or is no mapping is in the returned list, with the empty
\* mapping.
C12_ArgumentsAlwaysAMapping ==
    /\ \A i \in 1..Len(tool_calls) : tool_calls[i].arguments \in MappingTexts
    /\ parse_pc = "returned" =>
          \A a \in Occurrences :
             (/\ a = FirstOccurrence(NameAt(a[2]))
              /\ PieceInfo(parse_content[a[2]]).arguments \notin MappingTexts)
                => \E i \in 1..Len(tool_calls) :
                      /\ NameOf(tool_calls[i]) = NameAt(a[2])
                      /\ tool_calls[i].arguments = "{}"

C12_Witness ==
    /\ parse_pc = "returned"
    /\ parse_content = <<Prose, LooseFoo>>
    /\ tool_calls =
          <<[name |-> "foo", name_type |-> "str", arguments |-> "{}"]>>

\* a candidate whose span does not load as JSON
Malformed(t) ==
    LET info == PieceInfo(t) IN
    /\ info.backtick \/ info.raw \/ info.alt \/ info.loose
    /\ ~info.json_ok
    /\ ~info.args_ok

WellFormedOnly(content) == SelectSeq(content, LAMBDA t : ~Malformed(t))

\* C13: the outcome for a text is the outcome for the text without its
\* malformed candidates: the same calls are returned, and an exception
\* leaves the function only if it leaves it for that text too.
C13_MalformedCandidateSkipped ==
    /\ parse_pc = "returned" =>
          /\ ~ParseRaises(WellFormedOnly(parse_content))
          /\ tool_calls = parse_tool_calls(WellFormedOnly(parse_content))
    /\ parse_pc = "raised" => ParseRaises(WellFormedOnly(parse_content))

C13_Witness ==
    /\ parse_pc = "returned"
    /\ parse_content = <<FencedBroken, RawBroken, RawNope>>
    /\ tool_calls =
          <<[name |-> "nope", name_type |-> "str", arguments |-> "{}"]>>

\* C14: when methods 1 to 3 have produced a call, the list they produced
\* is the list returned; Method 4 runs only on an empty list.
C14_FallbackOnlyWhenEmpty ==
    /\ [][(parse_pc = "method4" /\ tool_calls # <<>>)
             => (tool_calls' = tool_calls /\ parse_pc' \in {"method4", "return"})
         ]_vars
    /\ [](parse_pc \in {"return", "returned"} /\ InlineFound =>
             \A i \in 1..Len(tool_calls) :
                /\ \E a \in Occurrences :
                      NameAt(a[2]) = NameOf(tool_calls[i])
                /\ \E m \in 1..3 :
                      ValidOcc(m, FirstOccurrence(NameOf(tool_calls[i]))[2]))

\* an inline call and a span only Method 4 would take: the inline call only
C14_Witness ==
    /\ parse_pc = "returned"
    /\ parse_content = <<LooseFoo, RawQuota>>
    /\ tool_calls =
          <<[name |-> "get_quota", name_type |-> "str", arguments |-> "{}"]>>

\* C35: parse_tool_calls never raises, whatever the value under "tool" of
\* a candidate is, and it returns no call that makes the request end with
\* an error notification (every returned name is a text, which is what
\* tool_call_detected.emit accepts).
C35_ParseIsTotal ==
    /\ parse_pc # "raised"
    /\ \A i \in 1..Len(tool_calls) : tool_calls[i].name_type = "str"

\* the objects that are written in both key orders: the piece with the
\* tool key first, the piece with the arguments key first, and the name
\* and the arguments the object holds
Reorderings ==
    { [tool_first |-> RawYou, arguments_first |-> AltQuota,
       name |-> "get_quota", arguments |-> "{\"user\": \"you\"}"],
      [tool_first |-> RawNested, arguments_first |-> AltNested,
       name |-> "foo",
       arguments |-> "{\"tool\": \"bar\", \"arguments\": {}}"] }

\* C39: an inline object with the tool key first and the same object with
\* the arguments key first extract to the same single call, with the name
\* and the arguments of the object.
C39_KeyOrderIrrelevant ==
    parse_pc = "returned" =>
        \A o \in Reorderings :
            parse_content \in {<<o.tool_first>>, <<o.arguments_first>>} =>
                /\ tool_calls = parse_tool_calls(<<o.tool_first>>)
                /\ tool_calls = parse_tool_calls(<<o.arguments_first>>)
                /\ tool_calls = <<[name |-> o.name, name_type |-> "str",
                                   arguments |-> o.arguments]>>

-----------------------------------------------------------------------------
(* Properties of chat_stream                                               *)

\* a frame whose payload is {choices: [{delta: {content: text}}]}, with a
\* text that is not empty
CarriesText(f) ==
    LET info == FrameInfo(f) IN
    /\ ~info.empty /\ info.utf8 /\ ~info.done /\ info.json_ok
    /\ info.value = "dict" /\ info.choices = "one" /\ info.delta = "dict"
    /\ info.content = "text" /\ info.text # ""

\* the deltas of the frames of that shape before the first [DONE], in order
RECURSIVE DeltasOf(_)
DeltasOf(lines) ==
    IF lines = <<>> \/ FrameInfo(Head(lines)).done THEN <<>>
    ELSE IF CarriesText(Head(lines))
    THEN <<FrameInfo(Head(lines)).text>> \o DeltasOf(Tail(lines))
    ELSE DeltasOf(Tail(lines))

\* C18: a malformed frame is never fatal to the stream and is skipped
\* silently: chat_stream does not raise while it takes the frames, it goes
\* on to the end of the body or to the [DONE] marker, and what it returns
\* and what it delivered to on_chunk are the deltas of the other frames
C18_MalformedFrameNeverFatal ==
    /\ stream_pc # "raised"
    /\ stream_pc = "returned" =>
          /\ line_idx > Len(body) \/ body[line_idx] = FrameDone
          /\ stream_content = DeltasOf(body)
          /\ on_chunk_calls = DeltasOf(body)

\* C36: the content chat_stream returns is the in-order concatenation of
\* the non-empty deltas of the well-formed frames before the first [DONE];
\* on_chunk is called once for each of them, in that order; any other
\* frame, and every frame after the marker, produces no chunk and adds
\* nothing to the content.
C36_ContentIsDeltasBeforeDone ==
    /\ [](stream_pc = "returned" =>
             /\ stream_content = DeltasOf(body)
             /\ on_chunk_calls = DeltasOf(body))
    /\ [][(stream_content' # stream_content
             \/ on_chunk_calls' # on_chunk_calls) =>
             /\ stream_pc = "lines"
             /\ CarriesText(body[line_idx])
             /\ stream_content' =
                   Append(stream_content, FrameInfo(body[line_idx]).text)
             /\ on_chunk_calls' =
                   Append(on_chunk_calls, FrameInfo(body[line_idx]).text)
          ]_vars
    /\ [][stream_pc # "lines" =>
             /\ stream_content' = stream_content
             /\ on_chunk_calls' = on_chunk_calls]_vars

\* an empty delta, a delta, the marker: one chunk, and the content is it
C36_Witness ==
    /\ stream_pc = "returned"
    /\ body = <<FrameEmptyText, FrameHel, FrameDone>>
    /\ stream_content = <<"Hel">>
    /\ on_chunk_calls = <<"Hel">>

-----------------------------------------------------------------------------
(* Properties of load_mcps                                                 *)

\* the source of the descriptor can be executed and defines tool n
Defines(d, n) ==
    LET info == PathInfo(d.path) IN
    /\ info.truthy /\ info.text /\ info.exists /\ info.exec = "ok"
    /\ \E k \in 1..Len(info.defines) : info.defines[k].name = n

\* the handler the source of the descriptor has for tool n
HandlerOf(d, n) ==
    LET defs == PathInfo(d.path).defines IN
    defs[CHOOSE k \in 1..Len(defs) : defs[k].name = n].function

\* what execute_tool returns when it invokes a handler
TextOf(function) ==
    IF function = "returns_text" THEN ReturnedText
    ELSE ErrorPayload("Tool execution error: " \o RaisedMessage)

\* C19: when two sources of the descriptor list define a tool of the same
\* name, then after load the registry maps the name to the handler of the
\* one that comes later in the list (the last one that defines it), and
\* execute_tool invokes that handler
C19_LaterSourceWins ==
    load_pc = "returned" =>
        \A n \in {"get_quota", "jobs"} :
        \A i, j \in 1..Len(config) :
            (/\ i < j
             /\ Defines(config[i], n)
             /\ Defines(config[j], n)
             /\ \A k \in (j + 1)..Len(config) : ~Defines(config[k], n))
            => /\ n \in DOMAIN tools
               /\ tools[n].server_name = config[j].name
               /\ tools[n].function = HandlerOf(config[j], n)
               /\ execute_tool(n).invoked
               /\ execute_tool(n).text = TextOf(HandlerOf(config[j], n))

\* the source of the descriptor loads: it has a path, the file exists, and
\* executing and inspecting it end without a failure
Loads(d) ==
    LET info == PathInfo(d.path) IN
    /\ info.truthy /\ info.text /\ info.exists /\ info.exec = "ok"
    /\ info.inspect_ok

\* C20: a source whose load fails is skipped: load_mcps never raises, and
\* when it has returned the registry holds the tools of all sources of the
\* list that load, those after a failing source included
C20_FailedSourceSkipped ==
    /\ load_pc # "raised"
    /\ load_pc = "returned" =>
          \A i \in 1..Len(config) :
              Loads(config[i]) =>
                  \A k \in 1..Len(PathInfo(config[i].path).defines) :
                      PathInfo(config[i].path).defines[k].name
                          \in DOMAIN tools

\* the tool names get_tool_descriptions lists: those of server.tools of
\* every registered server
ListedTools ==
    UNION {{servers[s][k] : k \in 1..Len(servers[s])} : s \in DOMAIN servers}

\* C34: in every state of the load and after it, every name execute_tool
\* can dispatch was registered by a source of the list that loads, and the
\* names execute_tool can dispatch are exactly the names listed under the
\* registered servers
C34_ExecutableIsListed ==
    /\ \A n \in DOMAIN tools :
          \E i \in 1..Len(config) :
              /\ Loads(config[i])
              /\ Defines(config[i], n)
              /\ tools[n].server_name = config[i].name
              /\ tools[n].function = HandlerOf(config[i], n)
    /\ load_pc = "returned" => DOMAIN tools = ListedTools

-----------------------------------------------------------------------------
(* Properties of the session                                               *)

\* C15: at no time are the run() of two workers of the session executing.
C15_OneWorkerAtATime ==
    Cardinality({w \in DOMAIN threads : IsRunning(w)}) <= 1

\* C30: a request that ended with finished has added exactly two messages
\* to conversation_history as it was before its send_message: the user's
\* message and, right after it, one assistant message for the finished
\* signal; nothing else is ever appended
C30_TwoMessagesPerFinishedRequest ==
    \A i \in 1..Len(conversation_history) :
        conversation_history[i].role = "assistant" =>
            /\ i > 1
            /\ conversation_history[i - 1] =
                  UserMessage(conversation_history[i].request)
            /\ \A j \in 1..Len(conversation_history) :
                  conversation_history[j] = conversation_history[i] => j = i

\* the assistant messages of request w in a history
Replies(h, w) == SelectSeq(h, LAMBDA m : m = AssistantMessage(w))

\* C31: once stop_request() has run for a request (is_cancelled of its
\* worker is set), no assistant message of that request is appended to
\* conversation_history, whether its finished signal was emitted before
\* or after the stop.
C31_NothingAppendedAfterStop ==
    [][\A w \in worker_cancelled :
          Replies(conversation_history', w) = Replies(conversation_history, w)
      ]_vars

\* the signals a step hands to the window's handlers
Delivered ==
    IF Len(queued') < Len(queued)
    THEN SubSeq(queued, 1, Len(queued) - Len(queued'))
    ELSE <<>>

\* worker w is the last one send_message has started
IsLatest(w) ==
    /\ threads[w] # "new"
    /\ \A v \in Workers : v > w => threads[v] = "new"

\* C32: once send_message has cleaned up a worker and started the next
\* one, no signal of the earlier worker reaches a handler: every signal
\* handed to a handler comes from the worker started last, and no signal
\* of a disconnected worker is waiting for delivery.
C32_NoSignalOfPreviousWorker ==
    /\ [][\A i \in 1..Len(Delivered) : IsLatest(Delivered[i].worker)]_vars
    /\ [](\A i \in 1..Len(queued) : queued[i].worker \in connected)

\* the join of worker 1 timed out, worker 2 was started, and worker 1 has
\* emitted finished after that, which was not delivered
C32_Witness ==
    /\ current_worker = 2
    /\ threads[2] = "running"
    /\ threads[1] = "emitted"
    /\ last_signal[1] = "finished"
    /\ 1 \notin connected
    /\ queued = <<>>
    /\ Replies(conversation_history, 1) = <<>>
    /\ Len(conversation_history) = 2

-----------------------------------------------------------------------------
(* Properties of check_connection                                          *)

\* the request of the probe timed out, while connecting or while reading
TimedOut(outcome) ==
    outcome.kind = "raises"
        /\ outcome.error \in {"ConnectTimeout", "ReadTimeout"}

\* the connection of the probe failed for another reason than a timeout
ConnectionFailed(outcome) ==
    outcome.kind = "raises"
        /\ outcome.error \in {"ConnectionError", "SSLError"}

\* C38: check_connection returns for every outcome of the request, with
\* connected = TRUE exactly when the endpoint answered with status 200;
\* an answer with another status is reported as an HTTP error, a request
\* that timed out as a timeout and a connection failure as a network
\* error.
C38_ProbeClassified ==
    probe_pc = "returned" =>
        /\ probe_result.connected <=>
              (probe_outcome.kind = "status" /\ probe_outcome.status = "200")
        /\ probe_result.connected => probe_result.msg = "Connected"
        /\ (probe_outcome.kind = "status" /\ probe_outcome.status # "200")
              => probe_result.msg = "Error: " \o probe_outcome.status
        /\ TimedOut(probe_outcome) => probe_result.msg = "Timeout"
        /\ ConnectionFailed(probe_outcome)
              => probe_result.msg = "Connection failed"

====
